---- MODULE Spec2Model ----
(***************************************************************************)
(* A model of pgremapper: the in-memory upmap table (mappingState), the    *)
(* backfill reservation tally (backfillState), the remap algebra and the   *)
(* commands that drive them.  Every operator is translated from the Go     *)
(* source named in MODEL_MAP.json.                                         *)
(***************************************************************************)
EXTENDS Integers, Sequences, FiniteSets, TLC

\* ------------------------------------------------------------------ bounds
\* OSD identifiers of the modelled cluster are 1..NumOsds.
NumOsds == 4
\* Longest mapping list of one upmap item in a snapshot.
MaxMappings == 2
\* Longest import-mappings input list.
MaxImport == 2

\* ------------------------------------------------------- program constants
invalidOSD == 2147483647
NoChange == 0
NoReservationAvailable == 1
ChangesPending == 2
MaxInt32 == 2147483647

OSDs == 1..NumOsds
AllOsds == OSDs \cup {invalidOSD}

\* What a run depends on besides the pg dump and the upmap items: the EC
\* profile of pool 2 in `ceph osd pool ls detail`, and whether the slice the
\* osd dump's pg_upmap_items were parsed into has spare capacity.
VARIABLE env

\* The placement groups of the modelled cluster, in PgID order: "1.0" lives
\* in pool 1, "2.0" in pool 2.
PgOrder == <<"1.0", "2.0">>
PGs == {PgOrder[i] : i \in 1..Len(PgOrder)}
PoolOfPg(pgid) == IF pgid = "1.0" THEN 1 ELSE 2
\* `ceph osd pool ls detail`: pool 1 is replicated, pool 2 erasure coded
\* unless the run is on a cluster where it is replicated too.
ECProfile(pool) == IF pool = 1 THEN "replicated_rule" ELSE env.pool2
PgUsesEC(pgid) == ECProfile(PoolOfPg(pgid)) # "replicated_rule"

\* ------------------------------------------------------------ small helpers
Range(s) == {s[i] : i \in 1..Len(s)}
RemoveAt(s, i) == SubSeq(s, 1, i - 1) \o SubSeq(s, i + 1, Len(s))
Min(S) == CHOOSE x \in S : \A y \in S : x <= y
\* All sequences over S of length at most n.
SeqsUpTo(S, n) == UNION {[1..k -> S] : k \in 0..n}

mapping(from, to, dirty) == [From |-> from, To |-> to, dirty |-> dirty]
\* The (from, to) pairs of a mapping list, dirty flags dropped.
Pairs(ms) == {<<ms[i].From, ms[i].To>> : i \in 1..Len(ms)}

NoItem ==
  [exists |-> FALSE, Mappings |-> <<>>, removedMappings |-> <<>>,
   staleMappings |-> <<>>, dirty |-> FALSE]

\* ------------------------------------------------------------ placement model
hasDuplicateOSDID(osdids) ==
  \E i, j \in 1..Len(osdids) :
    osdids[i] # invalidOSD /\ i # j /\ osdids[i] = osdids[j]

\* sanitizePgBriefs keeps a PG brief iff this holds.
sanitizePgBriefs(up, acting) ==
  /\ Len(up) = Len(acting)
  /\ ~hasDuplicateOSDID(acting)
  /\ ~hasDuplicateOSDID(up)

HasPrimary(acting) == \E i \in 1..Len(acting) : acting[i] # invalidOSD
primaryOsd(acting) ==
  acting[Min({i \in 1..Len(acting) : acting[i] # invalidOSD})]

\* mappingsAsToFromMap: the From recorded for `to`; a later mapping of the
\* list overwrites an earlier one with the same To.  -1 when absent.
mappingsAsToFromMap(ms, to) ==
  LET hits == {i \in 1..Len(ms) : ms[i].To = to}
  IN IF hits = {} THEN -1 ELSE ms[CHOOSE i \in hits : \A j \in hits : j <= i].From

swapUp(up, i1, i2) == [up EXCEPT ![i1] = up[i2], ![i2] = up[i1]]

\* The inner loop of reorderUpToMatchActing: the first index of up that holds
\* actOsd, or that holds the To of a mapping whose From is actOsd; 0 if none.
FirstMatch(up, actOsd, ms) ==
  LET hits == {ui \in 1..Len(up) :
                 \/ up[ui] = actOsd
                 \/ mappingsAsToFromMap(ms, up[ui]) = actOsd}
  IN IF hits = {} THEN 0 ELSE Min(hits)

RECURSIVE reorderLoop(_, _, _, _)
reorderLoop(up, acting, ms, ai) ==
  IF ai > Len(acting) THEN up
  ELSE LET ui == FirstMatch(up, acting[ai], ms)
       IN reorderLoop(IF ui = 0 THEN up ELSE swapUp(up, ui, ai), acting, ms, ai + 1)

\* reorderUpToMatchActing(pgid, up, acting, useUpmap); ms is the mapping list
\* consulted when useUpmap is set, and <<>> otherwise.
reorderUpToMatchActing(pgid, up, acting, ms) ==
  IF PgUsesEC(pgid) THEN up ELSE reorderLoop(up, acting, ms, 1)

\* ------------------------------------------------------------- backfill state
NoOsdState ==
  [localReservations |-> 0, remoteReservations |-> 0, backfillsFrom |-> 0,
   maxBackfillReservations |-> -1]

\* computeBackfillSrcsTgts: the indexes i with up[i] != acting[i]; srcs are
\* acting[i] and tgts are up[i] over these indexes.
computeBackfillSrcsTgts(up, acting) == {i \in 1..Len(acting) : up[i] # acting[i]}

NumSrcs(up, acting, osd) ==
  Cardinality({i \in computeBackfillSrcsTgts(up, acting) : acting[i] = osd})
NumTgts(up, acting, osd) ==
  Cardinality({i \in computeBackfillSrcsTgts(up, acting) : up[i] = osd})
NumLocal(up, acting, osd) ==
  IF computeBackfillSrcsTgts(up, acting) # {} /\ HasPrimary(acting)
     /\ primaryOsd(acting) = osd
  THEN 1 ELSE 0

\* addReservations panics in primaryOsd when a backfill exists and acting
\* holds no valid OSD.
addPanics(up, acting) ==
  computeBackfillSrcsTgts(up, acting) # {} /\ ~HasPrimary(acting)

addReservations(o, up, acting) ==
  [x \in DOMAIN o |->
     [o[x] EXCEPT !.backfillsFrom = @ + NumSrcs(up, acting, x),
                  !.remoteReservations = @ + NumTgts(up, acting, x),
                  !.localReservations = @ + NumLocal(up, acting, x)]]

\* removeReservations panics instead of taking a counter below zero.
removePanics(o, up, acting) ==
  \/ addPanics(up, acting)
  \/ \E x \in DOMAIN o :
       \/ o[x].backfillsFrom < NumSrcs(up, acting, x)
       \/ o[x].remoteReservations < NumTgts(up, acting, x)
       \/ o[x].localReservations < NumLocal(up, acting, x)

removeReservations_KeepSources(o, up, acting) ==
  [x \in DOMAIN o |->
     [o[x] EXCEPT !.remoteReservations = @ - NumTgts(up, acting, x),
                  !.localReservations = @ - NumLocal(up, acting, x)]]

removeReservations(o, up, acting) ==
  [x \in DOMAIN o |->
     [o[x] EXCEPT !.backfillsFrom = @ - NumSrcs(up, acting, x),
                  !.remoteReservations = @ - NumTgts(up, acting, x),
                  !.localReservations = @ - NumLocal(up, acting, x)]]

\* The loop of accountForRemap over the indexes of pgb.Up, from index i on.
\* Each index whose current value is `from` has the PG's reservations
\* removed, the slot set to `to`, up re-ordered (without the upmap) and the
\* reservations added back; the loop goes on after a hit.
RECURSIVE accountLoop(_, _, _, _, _, _, _)
accountLoop(o, pgid, up, acting, from, to, i) ==
  IF i > Len(up) THEN [osds |-> o, up |-> up, panic |-> FALSE]
  ELSE IF up[i] # from THEN accountLoop(o, pgid, up, acting, from, to, i + 1)
  ELSE IF removePanics(o, up, acting) THEN [osds |-> o, up |-> up, panic |-> TRUE]
  ELSE LET o1 == removeReservations(o, up, acting)
           up1 == reorderUpToMatchActing(pgid, [up EXCEPT ![i] = to], acting, <<>>)
       IN IF addPanics(up1, acting) THEN [osds |-> o1, up |-> up1, panic |-> TRUE]
          ELSE accountLoop(addReservations(o1, up1, acting), pgid, up1, acting,
                           from, to, i + 1)

\* What accountForRemap leaves of the backfill state after its loop ended as r;
\* warned tells that it went on to print "osd not in up set, unable to
\* compute effect of remap on backfill state", the statement after the loop.
accounted(pgbs, pgid, r) ==
  [pgbs |-> [pgbs EXCEPT ![pgid].Up = r.up], osds |-> r.osds, panic |-> r.panic,
   warned |-> ~r.panic]

\* accountForRemap on the backfill state (pgbs, osds): panics when the PG is
\* not in pgbs.
accountForRemap(pgbs, o, pgid, from, to) ==
  IF ~pgbs[pgid].present
  THEN [pgbs |-> pgbs, osds |-> o, panic |-> TRUE, warned |-> FALSE]
  ELSE accounted(pgbs, pgid,
                 accountLoop(o, pgid, pgbs[pgid].Up, pgbs[pgid].Acting, from, to, 1))

\* -------------------------------------------------------------- mapping state
\* The second loop of tryRemap stops at the first mapping that is the exact
\* inverse, or ends in `from`, or overlaps the request; 0 if there is none.
FirstOverlap(ms, from, to) ==
  LET hits == {i \in 1..Len(ms) :
                 \/ ms[i].To = from
                 \/ ms[i].From = to \/ ms[i].From = from \/ ms[i].To = to}
  IN IF hits = {} THEN 0 ELSE Min(hits)

\* The state tryRemap leaves when it edited item pui to hold newMs and
\* newRemoved and accountForRemap ended as acc.
remapped(puis, pgid, pui, newMs, newRemoved, what, acc) ==
  [puis |-> [puis EXCEPT ![pgid] =
               [pui EXCEPT !.dirty = TRUE, !.Mappings = newMs,
                           !.removedMappings = newRemoved]],
   pgbs |-> acc.pgbs, osds |-> acc.osds, changeState |-> ChangesPending,
   res |-> IF acc.panic THEN "panic" ELSE what]

tryRemapEdit_AppendOnly(puis, pgbs, o, pgid, from, to, pui, i, acc) ==
  remapped(puis, pgid, pui, Append(pui.Mappings, mapping(from, to, TRUE)),
           pui.removedMappings, "added", acc)

tryRemapEdit_ConflictAccounts(puis, pgbs, o, pgid, from, to, pui, i, acc) ==
  LET ms == pui.Mappings
  IN IF i = 0
     THEN remapped(puis, pgid, pui, Append(ms, mapping(from, to, TRUE)),
                   pui.removedMappings, "added", acc)
     ELSE IF ms[i].From = to /\ ms[i].To = from
     THEN remapped(puis, pgid, pui, RemoveAt(ms, i),
                   Append(pui.removedMappings, [ms[i] EXCEPT !.dirty = TRUE]),
                   "removed", acc)
     ELSE IF ms[i].To = from
     THEN remapped(puis, pgid, pui, [ms EXCEPT ![i] = mapping(ms[i].From, to, TRUE)],
                   Append(pui.removedMappings, [ms[i] EXCEPT !.dirty = TRUE]),
                   "modified", acc)
     ELSE [puis |-> [puis EXCEPT ![pgid] = [pui EXCEPT !.dirty = TRUE]],
           pgbs |-> acc.pgbs, osds |-> acc.osds, changeState |-> ChangesPending,
           res |-> "conflict"]

\* The second loop of tryRemap and the append after it: i is the index the
\* loop stops at, acc what accountForRemap(pgid, from, to) leaves.
tryRemapEdit(puis, pgbs, o, pgid, from, to, pui, i, acc) ==
  LET ms == pui.Mappings
  IN IF i = 0
     THEN remapped(puis, pgid, pui, Append(ms, mapping(from, to, TRUE)),
                   pui.removedMappings, "added", acc)
     ELSE IF ms[i].From = to /\ ms[i].To = from
     THEN remapped(puis, pgid, pui, RemoveAt(ms, i),
                   Append(pui.removedMappings, [ms[i] EXCEPT !.dirty = TRUE]),
                   "removed", acc)
     ELSE IF ms[i].To = from
     THEN remapped(puis, pgid, pui, [ms EXCEPT ![i] = mapping(ms[i].From, to, TRUE)],
                   Append(pui.removedMappings, [ms[i] EXCEPT !.dirty = TRUE]),
                   "modified", acc)
     ELSE [puis |-> [puis EXCEPT ![pgid] = [pui EXCEPT !.dirty = TRUE]],
           pgbs |-> pgbs, osds |-> o, changeState |-> ChangesPending,
           res |-> "conflict"]

\* tryRemap on the item pui that findOrMakeUpmapItem returned.
tryRemapItem(puis, pgbs, o, cs, pgid, from, to, pui) ==
  IF \E i \in 1..Len(pui.Mappings) :
       pui.Mappings[i].From = from /\ pui.Mappings[i].To = to
  THEN [puis |-> [puis EXCEPT ![pgid] = pui], pgbs |-> pgbs, osds |-> o,
        changeState |-> cs, res |-> "duplicate"]
  ELSE tryRemapEdit(puis, pgbs, o, pgid, from, to, pui,
                    FirstOverlap(pui.Mappings, from, to),
                    accountForRemap(pgbs, o, pgid, from, to))

\* tryRemap on (puis, pgbs, osds, changeState).  res is "duplicate",
\* "removed", "modified", "added", "conflict" (the error return) or "panic".
tryRemap(puis, pgbs, o, cs, pgid, from, to) ==
  tryRemapItem(puis, pgbs, o, cs, pgid, from, to,
               [puis[pgid] EXCEPT !.exists = TRUE])

\* sanitizeStaleUpmaps on one item of a PG present in the PG briefs.
IsStale(up, m) == m.From \in Range(up) \/ m.To \notin Range(up)
RECURSIVE KeepLive(_, _)
KeepLive(up, ms) ==
  IF ms = <<>> THEN <<>>
  ELSE IF IsStale(up, Head(ms)) THEN KeepLive(up, Tail(ms))
  ELSE <<Head(ms)>> \o KeepLive(up, Tail(ms))
RECURSIVE KeepStale(_, _)
KeepStale(up, ms) ==
  IF ms = <<>> THEN <<>>
  ELSE IF IsStale(up, Head(ms))
  THEN <<[Head(ms) EXCEPT !.dirty = TRUE]>> \o KeepStale(up, Tail(ms))
  ELSE KeepStale(up, Tail(ms))

\* ------------------------------------------------------------------- inputs
\* Mapping lists as the cluster reports them: no two mappings of an item
\* share a From or a To and none maps an OSD to itself.
UpmapInvariants(ms) ==
  /\ \A i, j \in 1..Len(ms) : i # j => ms[i].From # ms[j].From
  /\ \A i, j \in 1..Len(ms) : i # j => ms[i].To # ms[j].To
  /\ \A i \in 1..Len(ms) : ms[i].From # ms[i].To

CleanMappings == {mapping(f, t, FALSE) : f \in OSDs, t \in OSDs}
ValidLists == {ms \in SeqsUpTo(CleanMappings, MaxMappings) : UpmapInvariants(ms)}

StaleCount(up, ms) == Cardinality({i \in 1..Len(ms) : IsStale(up, ms[i])})

\* One PG of a snapshot: its brief and the mapping list of its upmap item
\* (an empty list: the osd dump holds no item for the PG).
PgInput(up, acting, state, ms) ==
  [Up |-> up, Acting |-> acting, State |-> state, Mappings |-> ms]

\* The mapping lists over which no mapping is stale for up.
LiveLists(up) == {l \in ValidLists : StaleCount(up, l) = 0}

\* Malformed briefs, which sanitizePgBriefs drops: they keep their item.
BadInputs ==
  {PgInput(<<1>>, <<1, 2>>, "active+clean", <<mapping(3, 1, FALSE)>>),
   PgInput(<<1, 3>>, <<2, 2>>, "active+clean", <<>>)}

\* The richly varied PG of the remap commands: a choice of up vectors against
\* acting <<1, 2>>, each with every list of live mappings and one list
\* holding a stale mapping; a degraded PG; the malformed briefs.
RemapUps == {<<1, 2>>, <<2, 1>>, <<3, 4>>}
RichInputs ==
  UNION {{PgInput(u, <<1, 2>>, "active+remapped+backfill_wait", ms) :
            ms \in LiveLists(u)} : u \in RemapUps}
  \cup {PgInput(<<3, 2>>, <<1, 2>>, "active+remapped+backfill_wait",
                <<mapping(1, 3, FALSE), mapping(3, 2, FALSE)>>),
        PgInput(<<3, 1>>, <<1, 2>>, "active+remapped+backfill_wait",
                <<mapping(1, 3, FALSE)>>)}
  \cup {PgInput(<<3, invalidOSD>>, <<1, invalidOSD>>, "active+undersized+degraded",
                <<mapping(1, 3, FALSE)>>)}
  \cup BadInputs

\* The other PG of the remap commands.
PlainInputs == {PgInput(<<3, 1>>, <<2, 1>>, "active+remapped+backfilling",
                        <<mapping(2, 3, FALSE)>>)}

OtherPg(p) == CHOOSE q \in PGs : q # p
Snapshots(rich, plain) ==
  UNION {{(r :> a) @@ (OtherPg(r) :> b) : a \in rich, b \in plain} : r \in PGs}

\* -------------------------------------------------------------------- state
VARIABLES
  pc,            \* where the process is: "start", "run", "planned", "apply",
                 \* "done" (exit 0) or "fatal" (panic)
  cmd,           \* the command line: [name, ...]
  yes,           \* the --yes option
  snap,          \* what the cluster reports: PG -> PgInput
  pgbs,          \* backfillState.pgbs (the briefs of pgDumpPgsBrief)
  puis,          \* mappingState.pgUpmapItems, by PgID
  osds,          \* backfillState.osds
  maxBackfillsFrom,         \* backfillState.maxBackfillsFrom
  maxBackfillReservations,  \* backfillState.maxBackfillReservations
  changeState,   \* mappingState.changeState
  written,       \* cluster mutations issued so far, by PgID
  ch,            \* M.apply's channel and workers: the worker count, the
                 \* dirty items not yet sent, the items workers hold, and
                 \* the PgIDs of the commands issued, in order
  last           \* the latest tryRemap call: its arguments and result, the
                 \* mapping and backfill state it was made in, and the
                 \* arguments and result of the call before it

vars == <<pc, cmd, yes, snap, env, pgbs, puis, osds, maxBackfillsFrom,
          maxBackfillReservations, changeState, written, ch, last>>

NoCall == [pgid |-> "", from |-> 0, to |-> 0, res |-> "none", must |-> FALSE,
           prev |-> <<>>,
           before |-> [puis |-> <<>>, pgbs |-> <<>>, osds |-> <<>>, changeState |-> NoChange]]

\* ---------------------------------------------------------------- seeding
\* pgDumpPgsBrief: sanitize, then reorder every kept brief using the upmap
\* items of the osd dump (stale ones included: they are stripped later).
pgDumpPgsBrief(s) ==
  [p \in PGs |->
     IF sanitizePgBriefs(s[p].Up, s[p].Acting)
     THEN [present |-> TRUE,
           Up |-> reorderUpToMatchActing(p, s[p].Up, s[p].Acting, s[p].Mappings),
           Acting |-> s[p].Acting, State |-> s[p].State]
     ELSE [present |-> FALSE, Up |-> <<>>, Acting |-> <<>>, State |-> ""]]

\* sanitizeStaleUpmaps over the items of the osd dump.
sanitizeStaleUpmaps(s, briefs) ==
  [p \in PGs |->
     IF s[p].Mappings = <<>> THEN NoItem
     ELSE IF ~briefs[p].present
     THEN [NoItem EXCEPT !.exists = TRUE, !.Mappings = s[p].Mappings]
     ELSE [NoItem EXCEPT !.exists = TRUE,
                         !.Mappings = KeepLive(briefs[p].Up, s[p].Mappings),
                         !.staleMappings = KeepStale(briefs[p].Up, s[p].Mappings)]]

\* mustGetCurrentBackfillState: the tally over the kept briefs.
RECURSIVE TallyFrom(_, _, _)
TallyFrom(o, briefs, k) ==
  IF k > Len(PgOrder) THEN o
  ELSE LET b == briefs[PgOrder[k]]
       IN TallyFrom(IF b.present THEN addReservations(o, b.Up, b.Acting) ELSE o,
                    briefs, k + 1)
mustGetCurrentBackfillState(briefs) ==
  TallyFrom([x \in AllOsds |-> NoOsdState], briefs, 1)
SeedPanics(briefs) ==
  \E p \in PGs : briefs[p].present /\ addPanics(briefs[p].Up, briefs[p].Acting)

\* The mapping and backfill state built from the briefs of pgDumpPgsBrief.
Seeded(briefs) ==
  /\ pgbs' = briefs
  /\ puis' = sanitizeStaleUpmaps(snap, briefs)
  /\ IF SeedPanics(briefs)
     THEN pc' = "fatal" /\ osds' = osds
     ELSE pc' = "run" /\ osds' = mustGetCurrentBackfillState(briefs)

\* mustGetCurrentMappingState, the first statement of every command.
mustGetCurrentMappingState ==
  /\ pc = "start"
  /\ Seeded(pgDumpPgsBrief(snap))
  /\ UNCHANGED <<cmd, yes, snap, env, maxBackfillsFrom, maxBackfillReservations,
                 changeState, written, ch, last>>

\* ------------------------------------------------------- remap and import
Called_ConflictReturns(r, pgid, from, to, must, nextpc) ==
  /\ puis' = r.puis
  /\ pgbs' = r.pgbs
  /\ osds' = r.osds
  /\ changeState' = r.changeState
  /\ last' = [pgid |-> pgid, from |-> from, to |-> to, res |-> r.res, must |-> must,
              prev |-> <<last.pgid, last.from, last.to, last.res>>,
              before |-> [puis |-> puis, pgbs |-> pgbs, osds |-> osds,
                          changeState |-> changeState]]
  /\ pc' = IF r.res = "panic" THEN "fatal" ELSE nextpc

\* What a call of M.tryRemap / M.mustRemap that ended as r leaves behind.
Called(r, pgid, from, to, must, nextpc) ==
  /\ puis' = r.puis
  /\ pgbs' = r.pgbs
  /\ osds' = r.osds
  /\ changeState' = r.changeState
  /\ last' = [pgid |-> pgid, from |-> from, to |-> to, res |-> r.res, must |-> must,
              prev |-> <<last.pgid, last.from, last.to, last.res>>,
              before |-> [puis |-> puis, pgbs |-> pgbs, osds |-> osds,
                          changeState |-> changeState]]
  /\ pc' = IF r.res = "panic" \/ (must /\ r.res = "conflict")
           THEN "fatal" ELSE nextpc

\* One call of M.tryRemap / M.mustRemap.
Call(pgid, from, to, must, nextpc) ==
  Called(tryRemap(puis, pgbs, osds, changeState, pgid, from, to),
         pgid, from, to, must, nextpc)

\* remap <pg ID> <source osd ID> <target osd ID>
remapCmd ==
  /\ pc = "run" /\ cmd.name = "remap"
  /\ \E pgid \in PGs, from \in OSDs, to \in OSDs :
       Call(pgid, from, to, TRUE, "planned")
  /\ UNCHANGED <<cmd, yes, snap, env, maxBackfillsFrom, maxBackfillReservations, written, ch>>

\* import-mappings: one entry of the input list.  An entry whose From has a
\* mapping in the item is applied to that mapping's To.
importEntry ==
  /\ pc = "run" /\ cmd.name = "import-mappings" /\ cmd.left > 0
  /\ \E pgid \in PGs, from \in OSDs, to \in OSDs :
       LET ms == puis[pgid].Mappings
           hits == {i \in 1..Len(ms) : ms[i].From = from}
       IN Call(pgid, IF hits = {} THEN from ELSE ms[Min(hits)].To, to, TRUE, "run")
  /\ cmd' = [cmd EXCEPT !.left = @ - 1]
  /\ UNCHANGED <<yes, snap, env, maxBackfillsFrom, maxBackfillReservations, written, ch>>

\* The input list of import-mappings ends here.
importEnd ==
  /\ pc = "run" /\ cmd.name = "import-mappings"
  /\ pc' = "planned"
  /\ UNCHANGED <<cmd, yes, snap, env, pgbs, puis, osds, maxBackfillsFrom,
                 maxBackfillReservations, changeState, written, ch, last>>

\* ------------------------------------------------------ confirm and apply
dirtyUpmapItems == {p \in PGs : puis[p].exists /\ puis[p].dirty}

\* The --concurrency option as apply reads it, and apply up to its send loop:
\* the workers are started and the dirty items, in PgID order, wait to be
\* sent.
Concurrency == IF cmd.name = "cancel-backfill" THEN {cmd.concurrency} ELSE 1..2
applyStarted(n) ==
  ch' = [workers |-> n,
         queue |-> SelectSeq(PgOrder, LAMBDA p : p \in dirtyUpmapItems),
         held |-> {}, issued |-> <<>>]

confirmProceed_IgnoreYes ==
  /\ pc = "planned"
  /\ IF changeState = NoChange \/ changeState = NoReservationAvailable
     THEN pc' = "done" /\ ch' = ch
     ELSE pc' = "apply" /\ \E n \in Concurrency : applyStarted(n)
  /\ UNCHANGED <<cmd, yes, snap, env, pgbs, puis, osds, maxBackfillsFrom,
                 maxBackfillReservations, changeState, written, last>>

\* confirmProceed, then either return from Run or go on to M.apply().
confirmProceed ==
  /\ pc = "planned"
  /\ IF changeState = NoChange \/ changeState = NoReservationAvailable
        \/ ~yes
     THEN pc' = "done" /\ ch' = ch
     ELSE pc' = "apply" /\ \E n \in Concurrency : applyStarted(n)
  /\ UNCHANGED <<cmd, yes, snap, env, pgbs, puis, osds, maxBackfillsFrom,
                 maxBackfillReservations, changeState, written, last>>

do_NeverRemoves(pui) ==
  <<"pg-upmap-items", [i \in 1..Len(pui.Mappings) |->
                         <<pui.Mappings[i].From, pui.Mappings[i].To>>]>>

\* pgUpmapItem.do: the cluster command one dirty item is written with.
do(pui) ==
  IF Len(pui.Mappings) = 0 THEN <<"rm-pg-upmap-items">>
  ELSE <<"pg-upmap-items", [i \in 1..Len(pui.Mappings) |->
                              <<pui.Mappings[i].From, pui.Mappings[i].To>>]>>

\* M.apply: the send loop hands the next dirty item to a worker that is
\* waiting on the channel.
applyTake ==
  /\ pc = "apply"
  /\ ch.queue # <<>> /\ Cardinality(ch.held) < ch.workers
  /\ ch' = [ch EXCEPT !.queue = Tail(@), !.held = @ \cup {Head(ch.queue)}]
  /\ UNCHANGED <<pc, cmd, yes, snap, env, pgbs, puis, osds, maxBackfillsFrom,
                 maxBackfillReservations, changeState, written, last>>

\* M.apply: a worker runs do() on the item it holds.
applyOne ==
  /\ pc = "apply"
  /\ \E p \in ch.held :
       /\ written' = (p :> do(puis[p])) @@ written
       /\ ch' = [ch EXCEPT !.held = @ \ {p}, !.issued = Append(@, p)]
  /\ UNCHANGED <<pc, cmd, yes, snap, env, pgbs, puis, osds, maxBackfillsFrom,
                 maxBackfillReservations, changeState, last>>

\* M.apply returns once the channel is closed and every worker is done.
applyDone ==
  /\ pc = "apply" /\ ch.queue = <<>> /\ ch.held = {}
  /\ pc' = "done"
  /\ UNCHANGED <<cmd, yes, snap, env, pgbs, puis, osds, maxBackfillsFrom,
                 maxBackfillReservations, changeState, written, ch, last>>

\* -------------------------------------------------------------- the program
Commands ==
  {[name |-> "remap"]} \cup {[name |-> "import-mappings", left |-> MaxImport]}

DefaultEnv == [pool2 |-> "ec-2-1", spare |-> FALSE]
InitEnv(commands, snapshots, envs) ==
  /\ env \in envs
  /\ cmd \in commands
  /\ yes \in BOOLEAN
  /\ snap \in snapshots
  /\ pc = "start"
  /\ pgbs = [p \in PGs |-> [present |-> FALSE, Up |-> <<>>, Acting |-> <<>>, State |-> ""]]
  /\ puis = [p \in PGs |-> NoItem]
  /\ osds = [x \in AllOsds |-> NoOsdState]
  /\ maxBackfillsFrom = MaxInt32
  /\ maxBackfillReservations = MaxInt32
  /\ changeState = NoChange
  /\ written = <<>>
  /\ ch = [workers |-> 0, queue |-> <<>>, held |-> {}, issued |-> <<>>]
  /\ last = NoCall
InitWith(commands, snapshots) == InitEnv(commands, snapshots, {DefaultEnv})

\* The commands that edit the table as told: remap and import-mappings.
InitRemap == InitWith(Commands, Snapshots(RichInputs, PlainInputs))

NextRemap ==
  \/ mustGetCurrentMappingState
  \/ remapCmd
  \/ importEntry
  \/ importEnd
  \/ confirmProceed
  \/ applyTake
  \/ applyOne
  \/ applyDone

SpecRemap == InitRemap /\ [][NextRemap]_vars

\* ------------------------------------------------- reservation-aware edits
updateChangeState_Assign(cs, wantedState) == wantedState

updateChangeState(cs, wantedState) == IF wantedState > cs THEN wantedState ELSE cs

getMaxBackfillReservations(o, mbr, osd) ==
  IF o[osd].maxBackfillReservations # -1 THEN o[osd].maxBackfillReservations
  ELSE mbr

\* The two checks of hasRoomForRemap on the backfill state with the remap
\* applied: the primary's local reservations and every target's remote ones.
withinMaxima(pgb, o, mbr) ==
  /\ ~(o[primaryOsd(pgb.Acting)].localReservations
         > getMaxBackfillReservations(o, mbr, primaryOsd(pgb.Acting)))
  /\ \A i \in computeBackfillSrcsTgts(pgb.Up, pgb.Acting) :
       ~(o[pgb.Up[i]].remoteReservations
           > getMaxBackfillReservations(o, mbr, pgb.Up[i]))

\* hasRoomForRemap after its second accountForRemap, which ended as b.
hasRoomReverted(hasRoom, b) ==
  [ok |-> hasRoom, pgbs |-> b.pgbs, osds |-> b.osds, panic |-> b.panic]

\* hasRoomForRemap after its first accountForRemap, which ended as a.
hasRoomApplied(a, mbr, pgid, from, to) ==
  IF a.panic \/ ~HasPrimary(a.pgbs[pgid].Acting)
  THEN [ok |-> FALSE, pgbs |-> a.pgbs, osds |-> a.osds, panic |-> TRUE]
  ELSE hasRoomReverted(withinMaxima(a.pgbs[pgid], a.osds, mbr),
                       accountForRemap(a.pgbs, a.osds, pgid, to, from))

\* hasRoomForRemap on the backfill state (bpgbs, o) under the limits mbf
\* (maxBackfillsFrom) and mbr (maxBackfillReservations): the verdict and the
\* backfill state it leaves after applying and reverting the remap.
hasRoomForRemap(bpgbs, o, mbf, mbr, pgid, from, to) ==
  IF o[from].backfillsFrom >= mbf
  THEN [ok |-> FALSE, pgbs |-> bpgbs, osds |-> o, panic |-> FALSE]
  ELSE hasRoomApplied(accountForRemap(bpgbs, o, pgid, from, to), mbr, pgid, from, to)

\* A candidate of remapLeastBusyPg.
pgMapping(pgid, from, to) == [PgID |-> pgid, From |-> from, To |-> to]

leastBusyVisit_FirstWithRoom(st, m, h) ==
  LET score == h.osds[m.To].remoteReservations * 10 + h.osds[m.To].localReservations
      st1 == [st EXCEPT !.pgbs = h.pgbs, !.osds = h.osds, !.panic = h.panic]
  IN IF h.panic THEN st1
     ELSE IF ~h.ok
     THEN [st1 EXCEPT !.changeState = updateChangeState(@, NoReservationAvailable)]
     ELSE IF ~st.found
     THEN [st1 EXCEPT !.found = TRUE, !.bestScore = score, !.best = m]
     ELSE st1

\* The body of the loop of remapLeastBusyPg for candidate m, h being the
\* outcome of hasRoomForRemap on it.
leastBusyVisit(st, m, h) ==
  LET score == h.osds[m.To].remoteReservations * 10 + h.osds[m.To].localReservations
      st1 == [st EXCEPT !.pgbs = h.pgbs, !.osds = h.osds, !.panic = h.panic]
  IN IF h.panic THEN st1
     ELSE IF ~h.ok
     THEN [st1 EXCEPT !.changeState = updateChangeState(@, NoReservationAvailable)]
     ELSE IF score < st.bestScore
     THEN [st1 EXCEPT !.found = TRUE, !.bestScore = score, !.best = m]
     ELSE st1

\* The loop of remapLeastBusyPg over the candidates from index k on; st holds
\* the backfill state, the change-state and the best candidate so far.
RECURSIVE leastBusyLoop(_, _, _, _, _)
leastBusyLoop(cands, k, mbf, mbr, st) ==
  IF k > Len(cands) \/ st.panic THEN st
  ELSE leastBusyLoop(cands, k + 1, mbf, mbr,
         leastBusyVisit(st, cands[k],
           hasRoomForRemap(st.pgbs, st.osds, mbf, mbr,
                           cands[k].PgID, cands[k].From, cands[k].To)))

\* remapLeastBusyPg after its mustRemap of the best candidate ended as r.
leastBusyRemapped(st, r) ==
  [ok |-> r.res \notin {"panic", "conflict"},
   panic |-> r.res \in {"panic", "conflict"},
   best |-> st.best, res |-> r.res,
   puis |-> r.puis, pgbs |-> r.pgbs, osds |-> r.osds,
   changeState |-> r.changeState]

\* remapLeastBusyPg after its loop ended as st.
leastBusyChosen(mpuis, st) ==
  IF st.panic \/ ~st.found
  THEN [ok |-> FALSE, panic |-> st.panic, best |-> st.best, res |-> "none",
        puis |-> mpuis, pgbs |-> st.pgbs, osds |-> st.osds,
        changeState |-> st.changeState]
  ELSE leastBusyRemapped(st,
         tryRemap(mpuis, st.pgbs, st.osds, st.changeState,
                  st.best.PgID, st.best.From, st.best.To))

\* remapLeastBusyPg: [ok, best] of the remap made, with the mapping and
\* backfill state it leaves; res is the result of its mustRemap.
remapLeastBusyPg(mpuis, bpgbs, o, cs, mbf, mbr, cands) ==
  leastBusyChosen(mpuis,
    leastBusyLoop(cands, 1, mbf, mbr,
      [pgbs |-> bpgbs, osds |-> o, changeState |-> cs, panic |-> FALSE,
       found |-> FALSE, bestScore |-> MaxInt32, best |-> pgMapping("", 0, 0)]))

\* ------------------------------------------------------------ the CRUSH tree
\* `ceph osd tree`: root "default" holds host1 (OSDs 1 and 2) and host2 (the
\* other OSDs).
HostOf(osd) == IF osd \in {1, 2} THEN "host1" ELSE "host2"
BucketParent(b) == IF b \in {"host1", "host2"} THEN "default" ELSE "none"
BucketType(b) == IF b = "default" THEN "root" ELSE "host"

\* getNearestParentOfType of an OSD node, over the two levels above it;
\* "none" when no parent has the type.
getNearestParentOfType(osd, t) ==
  LET p1 == HostOf(osd)
      p2 == BucketParent(p1)
  IN IF BucketType(p1) = t THEN p1
     ELSE IF p2 # "none" /\ BucketType(p2) = t THEN p2
     ELSE "none"

isCandidateMapping_AnyBucket(allow, sourceOsd, targetOsd, up) ==
  IF targetOsd = sourceOsd THEN "no" ELSE "yes"

\* isCandidateMapping: "yes", "no", or "panic" when an OSD of the up set has
\* no node in the tree or lacks a parent of the type.
isCandidateMapping(allow, sourceOsd, targetOsd, up) ==
  IF targetOsd = sourceOsd THEN "no"
  ELSE IF allow = ""
  THEN IF HostOf(targetOsd) = HostOf(sourceOsd) THEN "yes" ELSE "no"
  ELSE LET sb == getNearestParentOfType(sourceOsd, allow)
           tb == getNearestParentOfType(targetOsd, allow)
           stops == {i \in 1..Len(up) :
                       /\ up[i] # sourceOsd
                       /\ \/ up[i] = invalidOSD
                          \/ getNearestParentOfType(up[i], allow) = "none"
                          \/ getNearestParentOfType(up[i], allow) = tb}
       IN IF sb = "none" \/ tb = "none" THEN "panic"
          ELSE IF BucketParent(sb) # BucketParent(tb) THEN "no"
          ELSE IF stops = {} THEN "yes"
          ELSE IF \/ up[Min(stops)] = invalidOSD
                  \/ getNearestParentOfType(up[Min(stops)], allow) = "none"
          THEN "panic" ELSE "no"

\* getUpPGsForOsds for one OSD: the PGs, in dump order, whose up set holds it.
getUpPGsForOsds(bpgbs, osd) ==
  SelectSeq(PgOrder, LAMBDA p : bpgbs[p].present /\ osd \in Range(bpgbs[p].Up))

\* getCandidateMappings: every (PG, target) pair, PG-major, that
\* isCandidateMapping accepts.
AllPairs(pgs, sourceOsd, targetOsds) ==
  [k \in 1..(Len(pgs) * Len(targetOsds)) |->
     pgMapping(pgs[((k - 1) \div Len(targetOsds)) + 1], sourceOsd,
               targetOsds[((k - 1) % Len(targetOsds)) + 1])]
getCandidateMappings(bpgbs, allow, sourceOsd, targetOsds) ==
  SelectSeq(AllPairs(getUpPGsForOsds(bpgbs, sourceOsd), sourceOsd, targetOsds),
            LAMBDA m : isCandidateMapping(allow, sourceOsd, m.To, bpgbs[m.PgID].Up) = "yes")
candidatesPanic(bpgbs, allow, sourceOsd, targetOsds) ==
  LET all == AllPairs(getUpPGsForOsds(bpgbs, sourceOsd), sourceOsd, targetOsds)
  IN \E k \in 1..Len(all) :
       isCandidateMapping(allow, sourceOsd, all[k].To, bpgbs[all[k].PgID].Up) = "panic"

\* getMappings(withTo(osd)) or getMappings(withFrom(osd)), in item order,
\* reversed as calcPgMappingsToUndoUpmaps reverses them.
RECURSIVE getMappingsFrom(_, _, _, _)
getMappingsFrom(mpuis, osd, osdsAreTargets, k) ==
  IF k > Len(PgOrder) THEN <<>>
  ELSE LET p == PgOrder[k]
           ms == SelectSeq(mpuis[p].Mappings,
                           LAMBDA m : IF osdsAreTargets THEN m.From = osd
                                      ELSE m.To = osd)
       IN [i \in 1..Len(ms) |-> pgMapping(p, ms[i].To, ms[i].From)]
            \o getMappingsFrom(mpuis, osd, osdsAreTargets, k + 1)

\* mustParseMaxBackfillReservations: the per-OSD maxima of the option.
parseOsdMaxima(o, spec) ==
  [x \in DOMAIN o |->
     IF spec.given /\ x \in spec.osds
     THEN [o[x] EXCEPT !.maxBackfillReservations = spec.osdmax] ELSE o[x]]

\* ------------------------------------------------------- drain, undo-upmaps
\* The start of drain's Run after the seeding: the limits are parsed and the
\* candidate mappings computed.
drainStart ==
  /\ pc = "run" /\ cmd.name = "drain" /\ cmd.stage = "start"
  /\ maxBackfillReservations' =
       IF cmd.reservations.given THEN cmd.reservations.max
       ELSE maxBackfillReservations
  /\ osds' = parseOsdMaxima(osds, cmd.reservations)
  /\ maxBackfillsFrom' = cmd.maxSourceBackfills
  /\ IF candidatesPanic(pgbs, cmd.allow, cmd.sourceOsd, cmd.targetOsds)
     THEN pc' = "fatal" /\ cmd' = cmd
     ELSE /\ pc' = pc
          /\ cmd' = [cmd EXCEPT !.stage = "loop",
                       !.candidateMappings =
                          getCandidateMappings(pgbs, cmd.allow, cmd.sourceOsd,
                                               cmd.targetOsds)]
  /\ UNCHANGED <<yes, snap, env, pgbs, puis, changeState, written, ch, last>>

\* What one call of remapLeastBusyPg leaves behind.
LeastBusy(r) ==
  /\ puis' = r.puis
  /\ pgbs' = r.pgbs
  /\ osds' = r.osds
  /\ changeState' = r.changeState
  /\ last' = IF r.res = "none" THEN last
             ELSE [pgid |-> r.best.PgID, from |-> r.best.From, to |-> r.best.To,
                   res |-> r.res, must |-> TRUE,
                   prev |-> <<last.pgid, last.from, last.to, last.res>>,
                   before |-> [puis |-> puis, pgbs |-> pgbs, osds |-> osds,
                               changeState |-> changeState]]

drainStepped_KeepCandidates(r) ==
  /\ LeastBusy(r)
  /\ pc' = IF r.panic THEN "fatal" ELSE IF r.ok THEN pc ELSE "planned"
  /\ cmd' = IF r.ok
            THEN [cmd EXCEPT !.candidateMappings =
                    SelectSeq(@, LAMBDA m : m # r.best)]
            ELSE cmd

\* The loop of calcPgMappingsToDrainOsd after remapLeastBusyPg ended as r.
drainStepped(r) ==
  /\ LeastBusy(r)
  /\ pc' = IF r.panic THEN "fatal" ELSE IF r.ok THEN pc ELSE "planned"
  /\ cmd' = IF r.ok
            THEN [cmd EXCEPT !.candidateMappings =
                    SelectSeq(@, LAMBDA m : m.PgID # r.best.PgID)]
            ELSE cmd

\* One iteration of the loop of calcPgMappingsToDrainOsd.
drainStep ==
  /\ pc = "run" /\ cmd.name = "drain" /\ cmd.stage = "loop"
  /\ IF Len(cmd.candidateMappings) = 0
     THEN /\ pc' = "planned"
          /\ UNCHANGED <<cmd, pgbs, puis, osds, changeState, last>>
     ELSE drainStepped(remapLeastBusyPg(puis, pgbs, osds, changeState,
                                        maxBackfillsFrom, maxBackfillReservations,
                                        cmd.candidateMappings))
  /\ UNCHANGED <<yes, snap, env, maxBackfillsFrom, maxBackfillReservations, written, ch>>

\* The start of undo-upmaps' Run after the seeding: the OSD list is already
\* shuffled, the limits are parsed.
undoStart ==
  /\ pc = "run" /\ cmd.name = "undo-upmaps" /\ cmd.stage = "start"
  /\ maxBackfillReservations' =
       IF cmd.reservations.given THEN cmd.reservations.max
       ELSE maxBackfillReservations
  /\ osds' = parseOsdMaxima(osds, cmd.reservations)
  /\ maxBackfillsFrom' = cmd.maxSourceBackfills
  /\ cmd' = [cmd EXCEPT !.stage = "loop"]
  /\ UNCHANGED <<pc, yes, snap, env, pgbs, puis, changeState, written, ch, last>>

undoStepped_NoReset(r) ==
  /\ LeastBusy(r)
  /\ IF r.panic THEN pc' = "fatal" /\ cmd' = cmd
     ELSE IF cmd.i < Len(cmd.osds)
     THEN /\ pc' = pc
          /\ cmd' = [cmd EXCEPT !.i = @ + 1,
                                !.somethingChanged = cmd.somethingChanged \/ r.ok]
     ELSE IF cmd.somethingChanged \/ r.ok
     THEN pc' = pc /\ cmd' = [cmd EXCEPT !.i = 1, !.somethingChanged = TRUE]
     ELSE pc' = "planned" /\ cmd' = cmd

\* The inner loop of calcPgMappingsToUndoUpmaps after remapLeastBusyPg ended
\* as r: after the last OSD the outer loop goes round again if something
\* changed and ends otherwise.
undoStepped(r) ==
  /\ LeastBusy(r)
  /\ IF r.panic THEN pc' = "fatal" /\ cmd' = cmd
     ELSE IF cmd.i < Len(cmd.osds)
     THEN /\ pc' = pc
          /\ cmd' = [cmd EXCEPT !.i = @ + 1,
                                !.somethingChanged = cmd.somethingChanged \/ r.ok]
     ELSE IF cmd.somethingChanged \/ r.ok
     THEN pc' = pc /\ cmd' = [cmd EXCEPT !.i = 1, !.somethingChanged = FALSE]
     ELSE pc' = "planned" /\ cmd' = cmd

\* One iteration of the inner loop of calcPgMappingsToUndoUpmaps, for the
\* OSD at cmd.i.
undoStep ==
  /\ pc = "run" /\ cmd.name = "undo-upmaps" /\ cmd.stage = "loop"
  /\ undoStepped(remapLeastBusyPg(puis, pgbs, osds, changeState,
                                  maxBackfillsFrom, maxBackfillReservations,
                                  getMappingsFrom(puis, cmd.osds[cmd.i], cmd.target, 1)))
  /\ UNCHANGED <<yes, snap, env, maxBackfillsFrom, maxBackfillReservations, written, ch>>

\* The --max-backfill-reservations option: absent, a default maximum, or a
\* default maximum and a larger one for OSD 3.
ReservationSpecs ==
  {[given |-> FALSE, max |-> 0, osds |-> {}, osdmax |-> 0],
   [given |-> TRUE, max |-> 1, osds |-> {}, osdmax |-> 0],
   [given |-> TRUE, max |-> 1, osds |-> {3}, osdmax |-> 2]}

DrainCommands ==
  {[name |-> "drain", stage |-> "start", sourceOsd |-> src, targetOsds |-> tgts,
    allow |-> al, maxSourceBackfills |-> mbf, reservations |-> rs,
    candidateMappings |-> <<>>] :
     src \in {1, 3}, tgts \in {<<2>>, <<2, 4>>, <<4, 3>>},
     al \in {"", "host"}, mbf \in 1..2, rs \in ReservationSpecs}

UndoCommands ==
  {[name |-> "undo-upmaps", stage |-> "start", osds |-> os, target |-> tg,
    maxSourceBackfills |-> mbf, reservations |-> rs, i |-> 1,
    somethingChanged |-> FALSE] :
     os \in {<<2>>, <<3>>, <<2, 3>>, <<3, 2>>, <<3, 3>>},
     tg \in BOOLEAN, mbf \in 1..2, rs \in {r \in ReservationSpecs : r.osds = {}}}

\* The PGs of the reservation-aware commands.
DrainUps == {<<1, 2>>, <<2, 1>>, <<3, 2>>}
DrainRich ==
  UNION {{PgInput(u, <<1, 2>>, "active+remapped+backfill_wait", ms) :
            ms \in {l \in LiveLists(u) : Len(l) = 2 => l[1].From < l[2].From}} :
         u \in DrainUps}
  \cup {PgInput(<<3, invalidOSD>>, <<1, invalidOSD>>, "active+undersized+degraded",
                <<mapping(1, 3, FALSE)>>)}
  \cup BadInputs
DrainPlain ==
  PlainInputs \cup {PgInput(<<3, 2>>, <<2, 4>>, "active+remapped+backfilling", <<>>)}

InitDrain ==
  InitWith(DrainCommands \cup UndoCommands, Snapshots(DrainRich, DrainPlain))

NextDrain ==
  \/ mustGetCurrentMappingState
  \/ drainStart
  \/ drainStep
  \/ undoStart
  \/ undoStep
  \/ confirmProceed
  \/ applyTake
  \/ applyOne
  \/ applyDone

SpecDrain == InitDrain /\ [][NextDrain]_vars

\* undo-upmaps alone. Run is one goroutine that goes through the loops of
\* calcPgMappingsToUndoUpmaps without waiting for anything, so an iteration
\* that can be made is made.
NextUndo ==
  \/ mustGetCurrentMappingState
  \/ undoStart
  \/ undoStep
  \/ confirmProceed
  \/ applyTake
  \/ applyOne
  \/ applyDone

\* Weak fairness of undoStep. undoStep is enabled exactly where its guard
\* holds (the rest of it is a total function of the state, and every
\* iteration moves cmd.i, cmd.somethingChanged or pc), so that
\* WF_vars(undoStep) is written with the guard for ENABLED <<undoStep>>_vars.
undoStepFair ==
  \/ []<>(~(pc = "run" /\ cmd.name = "undo-upmaps" /\ cmd.stage = "loop"))
  \/ []<><<undoStep>>_vars

SpecUndo ==
  /\ InitWith(UndoCommands, Snapshots(DrainRich, DrainPlain))
  /\ [][NextUndo]_vars /\ WF_vars(undoStart) /\ undoStepFair

\* ------------------------------------------------------------ cancel-backfill
\* strings.Contains(pgb.State, sub) over the PG states of the model.
StateContains(state, sub) ==
  IF sub = "backfilling"
  THEN state \in {"active+remapped+backfilling",
                  "active+undersized+degraded+remapped+backfilling"}
  ELSE state \in {"active+remapped+backfilling", "active+remapped+backfill_wait",
                  "active+undersized+degraded+remapped+backfilling",
                  "active+undersized+degraded+remapped+backfill_wait"}

\* One peer_info entry of `ceph pg query`: index is 0 for the replicated form
\* "osd" of the peer name and the 1-based shard index of the form "osd(index)".
peerInfo(osd, index, incomplete, lec) ==
  [osd |-> osd, index |-> index, incomplete |-> incomplete, lec |-> lec]

\* The loop of getCompletePeers over the peers from index k on; epochs is
\* osdEpochMap, which gives 0 for an OSD it does not hold.
RECURSIVE completePeersLoop(_, _, _, _)
completePeersLoop(peers, epochs, infos, k) ==
  IF k > Len(infos) THEN [peers |-> peers, panic |-> FALSE]
  ELSE LET pi == infos[k]
           epochs1 == [x \in AllOsds |-> IF x = pi.osd THEN pi.lec ELSE epochs[x]]
           missing == {i \in 1..Len(peers) : peers[i] = invalidOSD}
       IN IF pi.index # 0
          THEN IF peers[pi.index] = pi.osd
               THEN completePeersLoop(peers, epochs1, infos, k + 1)
               ELSE IF peers[pi.index] # invalidOSD
                       /\ epochs1[peers[pi.index]] > pi.lec
               THEN completePeersLoop(peers, epochs1, infos, k + 1)
               ELSE completePeersLoop([peers EXCEPT ![pi.index] = pi.osd],
                                      epochs1, infos, k + 1)
          ELSE IF pi.incomplete = 1 \/ pi.osd \in Range(peers)
          THEN completePeersLoop(peers, epochs, infos, k + 1)
          ELSE IF missing = {} THEN [peers |-> peers, panic |-> TRUE]
          ELSE completePeersLoop([peers EXCEPT ![Min(missing)] = pi.osd],
                                 epochs, infos, k + 1)

\* getCompletePeers of a pg query whose acting set is `acting`.
getCompletePeers(acting, infos) ==
  completePeersLoop(acting, [x \in AllOsds |-> 0], infos, 1)

\* The filters of the slot loop of calcPgMappingsToUndoBackfill: TRUE when
\* the slot with up OSD u and acting OSD a is acted on.
excluded(c, osd) == osd \in c.excludedOsds
included(c, osd) == c.includedOsds = {} \/ osd \in c.includedOsds
slotSelected_SidesSwapped(c, u, a) ==
  IF c.target = c.source
  THEN /\ ~(excluded(c, u) \/ excluded(c, a))
       /\ (included(c, u) \/ included(c, a))
  ELSE /\ ~((c.source /\ excluded(c, a)) \/ (c.target /\ excluded(c, u)))
       /\ ((c.source /\ included(c, a)) \/ (c.target /\ included(c, u)))

slotSelected(c, u, a) ==
  IF c.target = c.source
  THEN /\ ~(excluded(c, u) \/ excluded(c, a))
       /\ (included(c, u) \/ included(c, a))
  ELSE /\ ~((c.source /\ excluded(c, u)) \/ (c.target /\ excluded(c, a)))
       /\ ((c.source /\ included(c, u)) \/ (c.target /\ included(c, a)))

\* What `ceph pg query` may report of the peers of a degraded PG.
PeerInfos(pgid) ==
  IF PgUsesEC(pgid)
  THEN {<<>>, <<peerInfo(2, 2, 0, 5)>>, <<peerInfo(3, 1, 0, 9)>>,
        <<peerInfo(2, 2, 0, 5), peerInfo(4, 2, 0, 7)>>,
        <<peerInfo(4, 2, 0, 7), peerInfo(2, 2, 0, 5)>>,
        <<peerInfo(4, 2, 1, 7)>>,
        <<peerInfo(2, 2, 0, 5), peerInfo(4, 2, 1, 7)>>,
        <<peerInfo(4, 2, 1, 7), peerInfo(2, 2, 0, 5)>>}
  ELSE {<<>>, <<peerInfo(2, 0, 0, 0)>>, <<peerInfo(2, 0, 1, 0)>>,
        <<peerInfo(4, 0, 0, 0)>>, <<peerInfo(2, 0, 0, 0), peerInfo(4, 0, 0, 0)>>}

\* The workers that hold a PG.
Busy == {p \in PGs : cmd.work[p].stage \in {"query", "active"}}
\* The PG the main goroutine sends next: the first present one still queued.
NextQueued ==
  LET q == {k \in 1..Len(PgOrder) : /\ pgbs[PgOrder[k]].present
                                     /\ cmd.work[PgOrder[k]].stage = "queued"}
  IN IF q = {} THEN "" ELSE PgOrder[Min(q)]

\* pgUpmapItemMap() walks osdDumpOut.PgUpmapItems, the slice the mapping
\* state was built from, through a header that keeps the length of the osd
\* dump.  findOrMakeUpmapItem inserts the item it makes in PgID order; when
\* the slice has spare capacity it does so in the same backing array, and
\* each item made before a dumped item pushes the last dumped item out of
\* the header's view.  made is the set of PGs whose item has been made.
PgIndex(pgid) == CHOOSE k \in 1..Len(PgOrder) : PgOrder[k] = pgid
madeBefore(mpuis, pgid) ==
  {q \in PGs : /\ PgIndex(q) < PgIndex(pgid)
               /\ snap[q].Mappings = <<>> /\ mpuis[q].exists}
dumpedAfter(pgid) ==
  {q \in PGs : PgIndex(q) > PgIndex(pgid) /\ snap[q].Mappings # <<>>}
shiftedOut(pgid, made) ==
  env.spare /\ Cardinality(made) > Cardinality(dumpedAfter(pgid))

\* The mappings reorderUpToMatchActing finds for the PG through
\* pgUpmapItemMap(): those of its item in the osd dump, if the item is
\* still in view.
dumpMappings(mpuis, pgid, made) ==
  IF snap[pgid].Mappings # <<>> /\ ~shiftedOut(pgid, made)
  THEN mpuis[pgid].Mappings ELSE <<>>

\* The workers inside tryRemap whose findOrMakeUpmapItem makes an item
\* before that of pgid: a reader that does not hold the mutex may see the
\* slice before or after each of these insertions.
makingBefore(pgid) ==
  {q \in cmd.inTryRemap : /\ PgIndex(q) < PgIndex(pgid)
                          /\ snap[q].Mappings = <<>> /\ ~puis[q].exists}
dumpViews(pgid) ==
  {dumpMappings(puis, pgid, madeBefore(puis, pgid) \cup racing) :
     racing \in SUBSET makingBefore(pgid)}

\* A worker after it took PG p off the channel and passed the state checks:
\* acting (reconstructed when degraded, ending as rec) against the
\* --pgs-including filter, and up re-ordered in place when reconstructed.
\* infos is the peer_info the reconstruction read, ms the mappings the
\* re-ordering found for the PG.
cancelTaken(p, degraded, rec, infos, ms) ==
  LET up == IF degraded
            THEN reorderUpToMatchActing(p, pgbs[p].Up, rec.peers, ms)
            ELSE pgbs[p].Up
      skip == /\ cmd.pgsIncludingOsds # {}
              /\ (Range(rec.peers) \cup Range(up)) \cap cmd.pgsIncludingOsds = {}
  IN IF degraded /\ rec.panic
     THEN pc' = "fatal" /\ UNCHANGED <<cmd, pgbs>>
     ELSE /\ pc' = pc
          /\ pgbs' = [pgbs EXCEPT ![p].Up = up]
          /\ cmd' = [cmd EXCEPT !.work[p] =
                       IF skip THEN [@ EXCEPT !.stage = "done"]
                       ELSE [@ EXCEPT !.stage = "active", !.i = 1,
                                      !.acting = rec.peers, !.infos = infos]]

cancelTake_AnyState ==
  /\ pc = "run" /\ cmd.name = "cancel-backfill"
  /\ NextQueued # "" /\ Cardinality(Busy) < cmd.concurrency
  /\ LET p == NextQueued
         pgb == pgbs[p]
     IN IF Len(pgb.Up) # Len(pgb.Acting)
        THEN /\ cmd' = [cmd EXCEPT !.work[p].stage = "done"]
             /\ UNCHANGED <<pc, pgbs>>
        ELSE IF invalidOSD \in Range(pgb.Acting)
        THEN /\ cmd' = [cmd EXCEPT !.work[p].stage = "query"]
             /\ UNCHANGED <<pc, pgbs>>
        ELSE cancelTaken(p, FALSE, [peers |-> pgb.Acting, panic |-> FALSE], <<>>, <<>>)
  /\ UNCHANGED <<yes, snap, env, puis, osds, maxBackfillsFrom, maxBackfillReservations,
                 changeState, written, ch, last>>

\* A worker receives the next PG from the channel and runs the loop body up
\* to the slot loop, or up to the pg query when the PG is degraded.
cancelTake ==
  /\ pc = "run" /\ cmd.name = "cancel-backfill"
  /\ NextQueued # "" /\ Cardinality(Busy) < cmd.concurrency
  /\ LET p == NextQueued
         pgb == pgbs[p]
     IN IF \/ ~StateContains(pgb.State, "backfill")
           \/ (cmd.excludeBackfilling /\ StateContains(pgb.State, "backfilling"))
           \/ Len(pgb.Up) # Len(pgb.Acting)
        THEN /\ cmd' = [cmd EXCEPT !.work[p].stage = "done"]
             /\ UNCHANGED <<pc, pgbs>>
        ELSE IF invalidOSD \in Range(pgb.Acting)
        THEN /\ cmd' = [cmd EXCEPT !.work[p].stage = "query"]
             /\ UNCHANGED <<pc, pgbs>>
        ELSE cancelTaken(p, FALSE, [peers |-> pgb.Acting, panic |-> FALSE], <<>>, <<>>)
  /\ UNCHANGED <<yes, snap, env, puis, osds, maxBackfillsFrom, maxBackfillReservations,
                 changeState, written, ch, last>>

\* The worker that holds the degraded PG p gets the answer of `ceph pg query`,
\* infos being what it reports of the peers, reconstructs the acting set and
\* re-orders up, reading the upmap items of the osd dump without the mutex.
cancelQuery(p) ==
  /\ pc = "run" /\ cmd.name = "cancel-backfill"
  /\ cmd.work[p].stage = "query"
  /\ \E infos \in PeerInfos(p) : \E ms \in dumpViews(p) :
       cancelTaken(p, TRUE, getCompletePeers(pgbs[p].Acting, infos), infos, ms)
  /\ UNCHANGED <<yes, snap, env, puis, osds, maxBackfillsFrom, maxBackfillReservations,
                 changeState, written, ch, last>>

\* The worker of PG p after the slot at index i: warned tells that the
\* slot's tryRemap returned an error, which the worker logged.
slotDone(w, warned) ==
  [w EXCEPT !.warned = @ \/ warned,
            !.i = IF w.i < Len(w.acting) THEN w.i + 1 ELSE 0,
            !.stage = IF w.i < Len(w.acting) THEN "active" ELSE "done"]

\* The slot the worker that holds PG p is at needs a tryRemap.
slotRemaps(p) ==
  LET u == pgbs[p].Up[cmd.work[p].i]
      a == cmd.work[p].acting[cmd.work[p].i]
  IN u # a /\ u # invalidOSD /\ a # invalidOSD /\ slotSelected(cmd, u, a)

cancelLock_NoWait(p) ==
  /\ pc = "run" /\ cmd.name = "cancel-backfill"
  /\ cmd.work[p].stage = "active" /\ p \notin cmd.inTryRemap
  /\ slotRemaps(p)
  /\ cmd' = [cmd EXCEPT !.inTryRemap = @ \cup {p}]
  /\ UNCHANGED <<pc, yes, snap, env, pgbs, puis, osds, maxBackfillsFrom,
                 maxBackfillReservations, changeState, written, ch, last>>

\* The worker that holds PG p enters tryRemap: m.l.Lock() returns once no
\* other worker is inside.
cancelLock(p) ==
  /\ pc = "run" /\ cmd.name = "cancel-backfill"
  /\ cmd.work[p].stage = "active" /\ cmd.inTryRemap = {}
  /\ slotRemaps(p)
  /\ cmd' = [cmd EXCEPT !.inTryRemap = @ \cup {p}]
  /\ UNCHANGED <<pc, yes, snap, env, pgbs, puis, osds, maxBackfillsFrom,
                 maxBackfillReservations, changeState, written, ch, last>>

\* One iteration of the slot loop of the worker that holds PG p: the body
\* of tryRemap up to its deferred Unlock when the slot needs one.
cancelSlot(p) ==
  /\ pc = "run" /\ cmd.name = "cancel-backfill"
  /\ cmd.work[p].stage = "active"
  /\ IF slotRemaps(p)
     THEN /\ p \in cmd.inTryRemap
          /\ Call(p, pgbs[p].Up[cmd.work[p].i], cmd.work[p].acting[cmd.work[p].i],
                  FALSE, pc)
          /\ cmd' = [cmd EXCEPT !.work[p] = slotDone(@, last'.res = "conflict"),
                                !.inTryRemap = @ \ {p}]
     ELSE /\ cmd' = [cmd EXCEPT !.work[p] = slotDone(@, FALSE)]
          /\ UNCHANGED <<pc, pgbs, puis, osds, changeState, last>>
  /\ UNCHANGED <<yes, snap, env, maxBackfillsFrom, maxBackfillReservations, written, ch>>

\* Every worker has returned: calcPgMappingsToUndoBackfill returns.
cancelEnd ==
  /\ pc = "run" /\ cmd.name = "cancel-backfill"
  /\ NextQueued = "" /\ Busy = {}
  /\ pc' = "planned"
  /\ UNCHANGED <<cmd, yes, snap, env, pgbs, puis, osds, maxBackfillsFrom,
                 maxBackfillReservations, changeState, written, ch, last>>

\* The command lines of cancel-backfill: the filters, each alone and in
\* the combinations that interact, under one worker and under two.
NoFilters ==
  [name |-> "cancel-backfill", excludeBackfilling |-> FALSE,
   source |-> FALSE, target |-> FALSE, excludedOsds |-> {}, includedOsds |-> {},
   pgsIncludingOsds |-> {}, concurrency |-> 1, inTryRemap |-> {},
   work |-> [p \in PGs |-> [stage |-> "queued", i |-> 0, acting |-> <<>>,
                              warned |-> FALSE, infos |-> <<>>]]]
CancelFilters ==
  {NoFilters,
   [NoFilters EXCEPT !.excludeBackfilling = TRUE],
   [NoFilters EXCEPT !.excludedOsds = {3}],
   [NoFilters EXCEPT !.includedOsds = {3}],
   [NoFilters EXCEPT !.pgsIncludingOsds = {4}],
   [NoFilters EXCEPT !.source = TRUE, !.excludedOsds = {3}],
   [NoFilters EXCEPT !.target = TRUE, !.excludedOsds = {1}],
   [NoFilters EXCEPT !.source = TRUE, !.includedOsds = {3}],
   [NoFilters EXCEPT !.target = TRUE, !.includedOsds = {1}],
   [NoFilters EXCEPT !.source = TRUE, !.target = TRUE, !.excludedOsds = {2}]}
CancelCommands ==
  {[c EXCEPT !.concurrency = n] : c \in CancelFilters, n \in 1..2}

\* The richly varied PG of cancel-backfill: up vectors against acting
\* <<1, 2>>, waiting or backfilling, with every list of live mappings; a
\* degraded PG; a PG that is remapped but not in backfill, one of its lists
\* holding a stale mapping; the malformed briefs.
CancelUps == {<<1, 2>>, <<2, 1>>, <<3, 2>>, <<3, 4>>, <<1, 3>>}
DegradedUps == {<<3, 2>>, <<2, 3>>, <<1, 4>>, <<3, invalidOSD>>}
CancelRich ==
  UNION {{PgInput(u, <<1, 2>>, st, ms) :
            ms \in LiveLists(u),
            st \in {"active+remapped+backfill_wait", "active+remapped+backfilling"}} :
         u \in CancelUps}
  \cup UNION {{PgInput(u, <<1, invalidOSD>>,
                       "active+undersized+degraded+remapped+backfill_wait", ms) :
                 ms \in {l \in LiveLists(u) : Len(l) <= 1}} : u \in DegradedUps}
  \cup {PgInput(<<3, 2>>, <<1, 2>>, "active+remapped", ms) :
          ms \in {<<>>, <<mapping(1, 3, FALSE)>>,
                  <<mapping(1, 3, FALSE), mapping(2, 4, FALSE)>>}}
  \cup {PgInput(<<3, 2>>, <<1, 2>>, "active+remapped+backfill_wait",
                <<mapping(1, 2, FALSE), mapping(4, 1, FALSE)>>)}
  \cup BadInputs
CancelPlain ==
  PlainInputs \cup {PgInput(<<1, 2>>, <<1, 2>>, "active+clean", <<>>)}

InitCancel == InitWith(CancelCommands, Snapshots(CancelRich, CancelPlain))

NextCancel ==
  \/ mustGetCurrentMappingState
  \/ cancelTake
  \/ \E p \in PGs : cancelQuery(p)
  \/ \E p \in PGs : cancelLock(p)
  \/ \E p \in PGs : cancelSlot(p)
  \/ cancelEnd
  \/ confirmProceed
  \/ applyTake
  \/ applyOne
  \/ applyDone

SpecCancel == InitCancel /\ [][NextCancel]_vars

\* cancel-backfill on a cluster whose pool 2 is replicated too, with an osd
\* dump parsed into a slice with or without spare capacity: PG 1.0 is in
\* backfill and may have no upmap item, PG 2.0 is degraded.
ReplicatedEnvs == {[pool2 |-> "replicated_rule", spare |-> b] : b \in BOOLEAN}
FirstInputs ==
  {PgInput(<<3, 2>>, <<1, 2>>, "active+remapped+backfill_wait", ms) :
     ms \in {<<>>, <<mapping(1, 3, FALSE)>>}}
SecondInputs ==
  {PgInput(<<4, 1>>, <<3, invalidOSD>>,
           "active+undersized+degraded+remapped+backfill_wait", ms) :
     ms \in {<<>>, <<mapping(2, 4, FALSE)>>, <<mapping(3, 4, FALSE)>>}}
  \cup {PgInput(<<1, 4>>, <<1, 2>>, "active+remapped+backfilling",
                <<mapping(2, 4, FALSE)>>)}
SpecCancelReplicated ==
  /\ InitEnv({[NoFilters EXCEPT !.concurrency = n] : n \in 1..2},
             {("1.0" :> a) @@ ("2.0" :> b) : a \in FirstInputs, b \in SecondInputs},
             ReplicatedEnvs)
  /\ [][NextCancel]_vars

\* cancel-backfill under every kind of value --concurrency takes: the flag is
\* an int that nothing validates, and the worker loops `for i := 0; i <
\* concurrency; i++` start no worker when it is zero (or negative).
PoolCommands ==
  {[c EXCEPT !.concurrency = n] :
     c \in {NoFilters, [NoFilters EXCEPT !.excludeBackfilling = TRUE]}, n \in 0..2}

\* A goroutine of the program can take a step: the main goroutine seeds the
\* state, sends on an unbuffered channel when a worker is waiting to
\* receive, returns from wg.Wait() once the workers are done, and confirms;
\* a worker goes on with the item it holds unless it waits for the mutex.
canStep ==
  \/ pc \in {"start", "planned"}
  \/ /\ pc = "run"
     /\ \/ NextQueued # "" /\ Cardinality(Busy) < cmd.concurrency
        \/ NextQueued = "" /\ Busy = {}
        \/ \E p \in PGs :
             \/ cmd.work[p].stage = "query"
             \/ /\ cmd.work[p].stage = "active"
                /\ slotRemaps(p) => (p \in cmd.inTryRemap \/ cmd.inTryRemap = {})
  \/ /\ pc = "apply"
     /\ \/ ch.queue # <<>> /\ Cardinality(ch.held) < ch.workers
        \/ ch.held # {}
        \/ ch.queue = <<>>

\* The Go scheduler runs a goroutine that can run: weak fairness of
\* NextCancel, written with canStep for ENABLED <<NextCancel>>_vars, and
\* of the steps wg.Wait() returns with.
poolsFair ==
  /\ []<>(~canStep) \/ []<><<NextCancel>>_vars
  /\ WF_vars(cancelEnd) /\ WF_vars(applyDone)

SpecPools ==
  /\ InitWith(PoolCommands, Snapshots(CancelRich, CancelPlain))
  /\ [][NextCancel]_vars /\ WF_vars(confirmProceed) /\ poolsFair

\* ----------------------------------------------------------- balance-bucket
\* The children of a bucket in `ceph osd tree`, in tree order.
BucketChildren(bucket) ==
  IF bucket = "host1" THEN <<2, 1>>
  ELSE IF bucket = "host2" THEN [k \in 1..(NumOsds - 2) |-> NumOsds + 1 - k]
  ELSE <<>>

\* getOsdsForBucket without a device class: the OSDs below the bucket, the
\* ones the tree shows with reweight 0 left out.
getOsdsForBucket(bucket, reweightZero) ==
  SelectSeq(IF bucket = "default"
            THEN BucketChildren("host1") \o BucketChildren("host2")
            ELSE BucketChildren(bucket),
            LAMBDA x : x \notin reweightZero)

\* getUpPGsForOsds for a list of OSDs: every PG, in dump order, goes to the
\* first OSD of its up vector that is in the list.
FirstListed(up, osdSet) ==
  LET hits == {i \in 1..Len(up) : up[i] \in osdSet}
  IN IF hits = {} THEN invalidOSD ELSE up[Min(hits)]
getUpPGsForOsdList(bpgbs, osdSet) ==
  [x \in osdSet |->
     SelectSeq(PgOrder, LAMBDA p : bpgbs[p].present
                                    /\ FirstListed(bpgbs[p].Up, osdSet) = x)]

RECURSIVE SumBackfillsFrom(_, _, _)
SumBackfillsFrom(o, list, k) ==
  IF k > Len(list) THEN 0
  ELSE o[list[k]].backfillsFrom + SumBackfillsFrom(o, list, k + 1)

\* The start of balance-bucket's Run after the seeding, up to the loop of
\* calcPgMappingsToBalanceOsds: the sorted OSD list, the PGs per OSD, the
\* 'out' OSDs dropped (a panic if one has PGs), the backfills counted.
balanceStarted(list, upPGs) ==
  IF \E x \in Range(list) \cap cmd.out : Len(upPGs[x]) # 0
  THEN pc' = "fatal" /\ cmd' = cmd
  ELSE /\ pc' = pc
       /\ cmd' = [cmd EXCEPT !.stage = "loop", !.osds = list,
                             !.isIn = Range(list) \ cmd.out,
                             !.osdUpPGs = [x \in OSDs |->
                                             IF x \in Range(list) THEN upPGs[x]
                                             ELSE <<>>],
                             !.backfillsInSet = SumBackfillsFrom(osds, list, 1)]
balanceSorted(list) ==
  balanceStarted(list, getUpPGsForOsdList(pgbs, Range(list)))
balanceStart ==
  /\ pc = "run" /\ cmd.name = "balance-bucket" /\ cmd.stage = "start"
  /\ balanceSorted(SortSeq(getOsdsForBucket(cmd.bucket, cmd.reweightZero),
                           LAMBDA a, b : a < b))
  /\ UNCHANGED <<yes, snap, env, pgbs, puis, osds, maxBackfillsFrom,
                 maxBackfillReservations, changeState, written, ch, last>>

\* The two scans of the loop body: the first 'in' OSD of the list with the
\* fewest, and with the most, PGs; 0 when no OSD is 'in'.
InList == SelectSeq(cmd.osds, LAMBDA x : x \in cmd.isIn)
RECURSIVE scanLowest(_, _, _)
scanLowest(list, k, best) ==
  IF k > Len(list) THEN best
  ELSE scanLowest(list, k + 1,
         IF Len(cmd.osdUpPGs[list[k]]) < Len(cmd.osdUpPGs[best]) THEN list[k] ELSE best)
RECURSIVE scanHighest(_, _, _)
scanHighest(list, k, best) ==
  IF k > Len(list) THEN best
  ELSE scanHighest(list, k + 1,
         IF Len(cmd.osdUpPGs[list[k]]) > Len(cmd.osdUpPGs[best]) THEN list[k] ELSE best)
lowestOsd == IF InList = <<>> THEN 0 ELSE scanLowest(InList, 1, InList[1])
highestOsd == IF InList = <<>> THEN 0 ELSE scanHighest(InList, 1, InList[1])
lenOf(osd) == IF osd = 0 THEN 0 ELSE Len(cmd.osdUpPGs[osd])

\* The end of the loop body after its mustRemap ended as r.
balanceMoved(r, pg, hi, lo) ==
  /\ Called(r, pg, hi, lo, TRUE, pc)
  /\ cmd' = IF r.res \in {"panic", "conflict"} THEN cmd
            ELSE [cmd EXCEPT !.osdUpPGs[lo] = Append(@, pg),
                             !.osdUpPGs[hi] = SubSeq(@, 1, Len(@) - 1),
                             !.backfillsInSet = @ + 1]

\* One iteration of the loop of calcPgMappingsToBalanceOsds.
balanceStep ==
  /\ pc = "run" /\ cmd.name = "balance-bucket" /\ cmd.stage = "loop"
  /\ IF \/ cmd.backfillsInSet >= cmd.maxBackfills
        \/ lenOf(highestOsd) - lenOf(lowestOsd) <= cmd.targetSpread
     THEN /\ pc' = "planned"
          /\ UNCHANGED <<cmd, pgbs, puis, osds, changeState, last>>
     ELSE balanceMoved(tryRemap(puis, pgbs, osds, changeState,
                                cmd.osdUpPGs[highestOsd][lenOf(highestOsd)],
                                highestOsd, lowestOsd),
                       cmd.osdUpPGs[highestOsd][lenOf(highestOsd)],
                       highestOsd, lowestOsd)
  /\ UNCHANGED <<yes, snap, env, maxBackfillsFrom, maxBackfillReservations, written, ch>>

\* balance-bucket on a host or on the root, with the OSDs the tree and the
\* osd dump show as out.
BalanceCommands ==
  {[name |-> "balance-bucket", stage |-> "start", bucket |-> b,
    maxBackfills |-> mb, targetSpread |-> ts,
    reweightZero |-> o[1], out |-> o[2],
    osds |-> <<>>, isIn |-> {}, osdUpPGs |-> [x \in OSDs |-> <<>>],
    backfillsInSet |-> 0] :
     b \in {"host1", "host2", "default"}, mb \in 0..2,
     ts \in 0..1, o \in {<<{}, {}>>, <<{4}, {4}>>, <<{}, {4}>>, <<{}, {3}>>}}

\* The PGs of balance-bucket: the ones of the remap commands and clean ones.
BalanceRich ==
  RichInputs
  \cup {PgInput(u, u, "active+clean", <<>>) : u \in {<<3, 2>>, <<1, 2>>, <<1, 3>>}}
BalancePlain ==
  PlainInputs
  \cup {PgInput(u, u, "active+clean", <<>>) : u \in {<<3, 1>>, <<1, 4>>}}
  \cup {PgInput(<<1, 3>>, <<1, 4>>, "active+remapped+backfilling", <<>>)}

InitBalance == InitWith(BalanceCommands, Snapshots(BalanceRich, BalancePlain))

NextBalance ==
  \/ mustGetCurrentMappingState
  \/ balanceStart
  \/ balanceStep
  \/ confirmProceed
  \/ applyTake
  \/ applyOne
  \/ applyDone

SpecBalance == InitBalance /\ [][NextBalance]_vars

\* The whole program: any of its commands on any of the snapshots.
Init == InitRemap \/ InitDrain \/ InitCancel \/ InitBalance

Next ==
  \/ mustGetCurrentMappingState
  \/ remapCmd
  \/ importEntry
  \/ importEnd
  \/ drainStart
  \/ drainStep
  \/ undoStart
  \/ undoStep
  \/ cancelTake
  \/ \E p \in PGs : cancelQuery(p)
  \/ \E p \in PGs : cancelLock(p)
  \/ \E p \in PGs : cancelSlot(p)
  \/ cancelEnd
  \/ balanceStart
  \/ balanceStep
  \/ confirmProceed
  \/ applyTake
  \/ applyOne
  \/ applyDone

Spec == Init /\ [][Next]_vars

\* ------------------------------------------------------------------ claims
Alive == pc \in {"run", "planned", "apply", "done"}

\* C1: after seeding and any sequence of tryRemap / mustRemap calls, no upmap
\* item holds two mappings with the same From, two with the same To, or a
\* mapping whose From equals its To.
C1_UpmapInvariants ==
  Alive => \A p \in PGs : UpmapInvariants(puis[p].Mappings)

\* The three counters of every OSD, maxBackfillReservations left aside.
Counters(o) ==
  [x \in DOMAIN o |-> <<o[x].localReservations, o[x].remoteReservations,
                        o[x].backfillsFrom>>]

\* C2: after any sequence of remap operations every per-OSD counter equals
\* what a tally from scratch over the current up and acting sets gives.
C2_TallyConsistent ==
  (Alive /\ last.res \in {"added", "modified", "removed"}) =>
    Counters(osds) = Counters(mustGetCurrentBackfillState(pgbs))

\* A remap changed an up set, and with it at least one counter.
C2_Witness ==
  /\ Alive /\ last.res \in {"added", "modified", "removed"}
  /\ pgbs[last.pgid].Up # pgDumpPgsBrief(snap)[last.pgid].Up
  /\ Counters(osds) # Counters(mustGetCurrentBackfillState(pgDumpPgsBrief(snap)))

\* C3: in every reachable state the up and acting sets of every PG of the
\* backfill state have the same length and neither holds the same valid OSD
\* twice.
C3_UpActingWellFormed ==
  Alive => \A p \in PGs :
             pgbs[p].present => sanitizePgBriefs(pgbs[p].Up, pgbs[p].Acting)

\* C4: M.apply() is entered, and a write command issued to the cluster, only
\* when --yes is set and the change-state is ChangesPending.
C4_ApplyOnlyWhenConfirmed ==
  (pc = "apply" \/ DOMAIN written # {}) => (yes /\ changeState = ChangesPending)

\* A run that wrote an item to the cluster.
C4_Witness == DOMAIN written # {} /\ yes /\ changeState = ChangesPending

\* The tally the planner started from: the one the seeding built.
StartOsds == mustGetCurrentBackfillState(pgDumpPgsBrief(snap))

\* drain or undo-upmaps has finished planning.
PlannerFinished ==
  pc \in {"planned", "apply", "done"} /\ cmd.name \in {"drain", "undo-upmaps"}

\* No counter of osd x is above its limit unless it was at least as far
\* above it when the planner started.
WithinLimits(x) ==
  /\ osds[x].backfillsFrom > maxBackfillsFrom
       => StartOsds[x].backfillsFrom >= osds[x].backfillsFrom
  /\ osds[x].localReservations
         > getMaxBackfillReservations(osds, maxBackfillReservations, x)
       => StartOsds[x].localReservations >= osds[x].localReservations
  /\ osds[x].remoteReservations
         > getMaxBackfillReservations(osds, maxBackfillReservations, x)
       => StartOsds[x].remoteReservations >= osds[x].remoteReservations

\* C5: no edit made by drain or undo-upmaps (through remapLeastBusyPg) takes
\* an OSD's backfillsFrom above maxBackfillsFrom or its local or remote
\* reservations above its maximum: after the planner finishes, a counter
\* above its limit was at least as high before the planner started.
C5_LimitsRespected == PlannerFinished => \A x \in AllOsds : WithinLimits(x)

\* A call of tryRemap that immediately follows its inverse: the call before
\* it was tryRemap(pg, from, to) and this one is tryRemap(pg, to, from).
InversePair ==
  /\ pc = "run" /\ pc' # "fatal" /\ cmd.name = "import-mappings"
  /\ cmd'.left = cmd.left - 1
  /\ last.res # "none"
  /\ last'.pgid = last.pgid /\ last'.from = last.to /\ last'.to = last.from

FirstEdited ==
  /\ last.res \in {"added", "removed", "modified"} /\ last.from # last.to
  /\ UpmapInvariants(last.before.puis[last.pgid].Mappings)

\* Before the pair the target was not in the PG's up set, and the up set
\* held no OSD twice and was in the order reorderUpToMatchActing gives it
\* without the upmap.
UpReadyForPair ==
  LET pgb == last.before.pgbs[last.pgid]
  IN /\ last.to \notin Range(pgb.Up)
     /\ ~hasDuplicateOSDID(pgb.Up)
     /\ reorderUpToMatchActing(last.pgid, pgb.Up, pgb.Acting, <<>>) = pgb.Up

Algebra(S, f, t) ==
  IF <<f, t>> \in S THEN [set |-> S, conflict |-> FALSE]
  ELSE IF <<t, f>> \in S THEN [set |-> S \ {<<t, f>>}, conflict |-> FALSE]
  ELSE IF \E m \in S : m[2] = f
  THEN [set |-> {IF m[2] = f THEN <<m[1], t>> ELSE m : m \in S}, conflict |-> FALSE]
  ELSE IF \A m \in S : m[1] \notin {f, t} /\ m[2] \notin {f, t}
  THEN [set |-> S \cup {<<f, t>>}, conflict |-> FALSE]
  ELSE [set |-> S, conflict |-> TRUE]

\* The latest call was made on a list satisfying the upmap invariants and
\* returned (it did not panic in the backfill accounting).
CallReturned ==
  /\ last.res \notin {"none", "panic"}
  /\ UpmapInvariants(last.before.puis[last.pgid].Mappings)

\* C7: on a mapping list that satisfies the upmap invariants, tryRemap
\* computes exactly the stated function of the mapping set: unchanged on a
\* duplicate, the inverse removed, a chain retargeted, a fresh mapping added
\* when nothing overlaps, and a conflict error in every other case.
C7_TryRemapIsAlgebra ==
  CallReturned =>
    LET a == Algebra(Pairs(last.before.puis[last.pgid].Mappings), last.from, last.to)
    IN /\ (last.res = "conflict") = a.conflict
       /\ Pairs(puis[last.pgid].Mappings) = a.set

\* C8: a conflict is an error value to the caller of tryRemap, which goes on
\* with the next slot of the PG and leaves the other PGs to their workers;
\* the same conflict through mustRemap ends the run as a fatal error, and a
\* run that ended so has issued no cluster mutation.
SlotAdvanced(p) ==
  /\ cmd.work[p].stage = "active"
  /\ cmd'.work[p].warned
  /\ cmd'.work[p].stage = IF cmd.work[p].i < Len(cmd.work[p].acting)
                          THEN "active" ELSE "done"
  /\ cmd'.work[p].i = IF cmd.work[p].i < Len(cmd.work[p].acting)
                      THEN cmd.work[p].i + 1 ELSE 0
  /\ \A q \in PGs \ {p} : cmd'.work[q] = cmd.work[q]
C8_ConflictReturnedOrFatal ==
  /\ [](pc = "fatal" => written = <<>>)
  /\ [][(last' # last /\ last'.res = "conflict") =>
          IF last'.must
          THEN pc' = "fatal" /\ written' = <<>>
          ELSE pc' = "run" /\ SlotAdvanced(last'.pgid)]_vars

\* cancel-backfill ran to its end and made a call after one that conflicted.
C8_Witness ==
  /\ cmd.name = "cancel-backfill" /\ pc = "planned"
  /\ last.res # "none" /\ ~last.must /\ last.prev[4] = "conflict"

\* C9: after cancel-backfill ran with no filters, every PG whose state
\* contains "backfill", whose acting set is complete or was reconstructed in
\* full, and for which no tryRemap returned a conflict, has up[i] = acting[i]
\* at every index, in replicated and EC pools alike.  A slot of up that is
\* NONE is never remapped, so the PGs meant are those whose up set is
\* complete too.
Unfiltered ==
  /\ cmd.name = "cancel-backfill"
  /\ ~cmd.excludeBackfilling /\ ~cmd.source /\ ~cmd.target
  /\ cmd.excludedOsds = {} /\ cmd.includedOsds = {} /\ cmd.pgsIncludingOsds = {}
CancelRan == pc \in {"planned", "apply", "done"}
Cancellable(p) ==
  /\ pgbs[p].present /\ StateContains(pgbs[p].State, "backfill")
  /\ cmd.work[p].acting # <<>> /\ invalidOSD \notin Range(cmd.work[p].acting)
  /\ invalidOSD \notin Range(pgbs[p].Up)
  /\ ~cmd.work[p].warned
C9_UpMadeActing ==
  (Unfiltered /\ CancelRan) =>
    \A p \in PGs : Cancellable(p) => pgbs[p].Up = cmd.work[p].acting

\* C10: cancel-backfill leaves as seeded (no mapping edit, item not dirty,
\* up vector and tally unchanged, nothing written) every PG whose state does
\* not contain "backfill", every PG that sanitization dropped and, under
\* --exclude-backfilling, every PG whose state contains "backfilling".
SeedBriefs == pgDumpPgsBrief(snap)
PassedOver(p) ==
  \/ ~SeedBriefs[p].present
  \/ ~StateContains(snap[p].State, "backfill")
  \/ (cmd.excludeBackfilling /\ StateContains(snap[p].State, "backfilling"))
C10_PassedOverUntouched ==
  (cmd.name = "cancel-backfill" /\ Alive) =>
    /\ \A p \in PGs :
         PassedOver(p) => /\ puis[p] = sanitizeStaleUpmaps(snap, SeedBriefs)[p]
                          /\ ~puis[p].dirty
                          /\ pgbs[p] = SeedBriefs[p]
                          /\ p \notin DOMAIN written
    /\ (\A p \in PGs : PassedOver(p)) =>
         osds = mustGetCurrentBackfillState(SeedBriefs)

\* Under --exclude-backfilling the run ended with a write for one PG while
\* a backfilling PG whose up and acting sets differ was passed over.
C10_Witness ==
  /\ cmd.name = "cancel-backfill" /\ pc = "done" /\ cmd.excludeBackfilling
  /\ \E p \in PGs :
       /\ SeedBriefs[p].present /\ StateContains(snap[p].State, "backfilling")
       /\ pgbs[p].Up # pgbs[p].Acting
       /\ OtherPg(p) \in DOMAIN written

\* The slot a step of the slot loop handles, for the PG p of the step.
SlotStep(p) ==
  /\ cmd.name = "cancel-backfill" /\ pc = "run"
  /\ cmd.work[p].stage = "active" /\ cmd'.work[p] # cmd.work[p]
  /\ pgbs[p].Up[cmd.work[p].i] # cmd.work[p].acting[cmd.work[p].i]
  /\ pgbs[p].Up[cmd.work[p].i] # invalidOSD
  /\ cmd.work[p].acting[cmd.work[p].i] # invalidOSD
\* The OSD filter over the sides of a slot that the flags select.
PassesOn(sides) ==
  /\ sides \cap cmd.excludedOsds = {}
  /\ (cmd.includedOsds = {} \/ sides \cap cmd.includedOsds # {})
SlotRemapped == last' # last

Reconstructed(p) ==
  /\ cmd.name = "cancel-backfill" /\ Alive
  /\ pgbs[p].present /\ invalidOSD \in Range(pgbs[p].Acting)
  /\ cmd.work[p].acting # <<>>
\* The peers of the list infos tagged with index i, and the complete ones.
Tagged(infos, i) == {k \in 1..Len(infos) : infos[k].index = i}
Complete(infos, i) == {k \in Tagged(infos, i) : infos[k].incomplete = 0}

\* C12: for an EC PG the reconstruction fills a NONE slot i only from the
\* peers tagged with index i, with a complete peer whenever there is one,
\* and among the complete peers with one of the greatest last_epoch_clean,
\* whatever the order of the list.
C12_ECPrefersCompleteNewest ==
  \A p \in PGs : (Reconstructed(p) /\ PgUsesEC(p)) =>
    LET infos == cmd.work[p].infos
        rec == cmd.work[p].acting
    IN \A i \in 1..Len(rec) : pgbs[p].Acting[i] = invalidOSD =>
         /\ rec[i] = invalidOSD \/ \E k \in Tagged(infos, i) : infos[k].osd = rec[i]
         /\ Complete(infos, i) # {} =>
              \E k \in Complete(infos, i) :
                /\ infos[k].osd = rec[i]
                /\ \A j \in Complete(infos, i) : infos[j].lec <= infos[k].lec

\* C13: a degraded PG whose acting set is still short of a slot after the
\* reconstruction receives no edit from cancel-backfill: its item stays as
\* seeded and is not dirty.
C13_UnreconstructedUntouched ==
  \A p \in PGs :
    (Reconstructed(p) /\ invalidOSD \in Range(cmd.work[p].acting)) =>
      puis[p] = sanitizeStaleUpmaps(snap, SeedBriefs)[p]

\* A step of drain that applied an edit, and the backfill state the edit
\* was applied in: the one the probes of hasRoomForRemap left.
DrainApplied ==
  /\ cmd.name = "drain" /\ pc = "run" /\ cmd.stage = "loop"
  /\ last' # last /\ last'.res \in {"added", "modified", "removed"}
ProbedPgbs ==
  leastBusyLoop(cmd.candidateMappings, 1, maxBackfillsFrom, maxBackfillReservations,
                [pgbs |-> pgbs, osds |-> osds, changeState |-> changeState,
                 panic |-> FALSE, found |-> FALSE, bestScore |-> MaxInt32,
                 best |-> pgMapping("", 0, 0)]).pgbs
\* The locality rule of --allow-movement-across.
LocalityRule(allow, s, t, up) ==
  /\ t # s
  /\ IF allow = "" THEN HostOf(t) = HostOf(s)
     ELSE /\ BucketParent(getNearestParentOfType(s, allow))
               = BucketParent(getNearestParentOfType(t, allow))
          /\ \A x \in Range(up) \ {s, invalidOSD} :
               getNearestParentOfType(x, allow) # getNearestParentOfType(t, allow)

EditedBefore ==
  {last.pgid} \cup (IF last.prev = <<>> THEN {} ELSE {last.prev[1]})

\* C15: drain applies at most one edit per PG (with two PGs a repeated PG
\* shows among three consecutive edits), and every edit it applies is from
\* the source OSD to an OSD of the target list, for a PG that had the source
\* OSD in its up set when drain started.
C15_DrainEditsShape ==
  [][DrainApplied =>
       /\ last'.pgid \notin EditedBefore
       /\ last'.from = cmd.sourceOsd
       /\ last'.to \in Range(cmd.targetOsds)
       /\ SeedBriefs[last'.pgid].present
       /\ cmd.sourceOsd \in Range(SeedBriefs[last'.pgid].Up)]_vars

\* drain has edited both PGs, one after the other.
C15_Witness ==
  /\ cmd.name = "drain" /\ last.res \in {"added", "modified", "removed"}
  /\ last.prev # <<>> /\ last.prev[4] \in {"added", "modified", "removed"}
  /\ last.prev[1] # last.pgid

\* A round of remapLeastBusyPg that did not end in a panic, its candidates,
\* and the state its probes leave: the state the chosen edit is applied in.
RoundStep ==
  /\ pc = "run" /\ cmd.name \in {"drain", "undo-upmaps"} /\ cmd.stage = "loop"
  /\ pc' # "fatal"
RoundCandidates ==
  IF cmd.name = "drain" THEN cmd.candidateMappings
  ELSE getMappingsFrom(puis, cmd.osds[cmd.i], cmd.target, 1)
Probed(cands) ==
  leastBusyLoop(cands, 1, maxBackfillsFrom, maxBackfillReservations,
                [pgbs |-> pgbs, osds |-> osds, changeState |-> changeState,
                 panic |-> FALSE, found |-> FALSE, bestScore |-> MaxInt32,
                 best |-> pgMapping("", 0, 0)])
Busyness(o, x) == 10 * o[x].remoteReservations + o[x].localReservations
RoomFor(st, c) ==
  hasRoomForRemap(st.pgbs, st.osds, maxBackfillsFrom, maxBackfillReservations,
                  c.PgID, c.From, c.To).ok
RoundApplied == last' # last

UndoRound ==
  /\ pc = "run" /\ cmd.name = "undo-upmaps" /\ cmd.stage = "loop"
  /\ pc' # "fatal"
ServedOsd == cmd.osds[cmd.i]

\* C17: in undo-upmaps every iteration applies at most one edit, undoing a
\* mapping of the OSD it is made for; within one pass over the OSD list (of
\* at most two entries, so that an edit earlier in the pass is one of the
\* first entry) no OSD gets a second edit; and a new pass starts only if
\* the pass that ends applied an edit.
C17_UndoFairPasses ==
  [][UndoRound =>
       /\ Cardinality({p \in PGs : puis'[p] # puis[p]}) <= 1
       /\ RoundApplied =>
            (IF cmd.target THEN last'.to ELSE last'.from) = ServedOsd
       /\ (RoundApplied /\ cmd.somethingChanged) =>
            \A j \in 1..(cmd.i - 1) : cmd.osds[j] # ServedOsd
       /\ (cmd.i = Len(cmd.osds) /\ pc' = "run") =>
            (cmd.somethingChanged \/ RoundApplied)
       /\ cmd'.somethingChanged =>
            (cmd.i < Len(cmd.osds) /\ (cmd.somethingChanged \/ RoundApplied))]_vars

\* The same, for OSD lists that name no OSD twice.
C17_UndoFairDistinct ==
  [][(UndoRound /\ Cardinality(Range(cmd.osds)) = Len(cmd.osds)) =>
       /\ Cardinality({p \in PGs : puis'[p] # puis[p]}) <= 1
       /\ RoundApplied =>
            (IF cmd.target THEN last'.to ELSE last'.from) = ServedOsd
       /\ (RoundApplied /\ cmd.somethingChanged) =>
            \A j \in 1..(cmd.i - 1) : cmd.osds[j] # ServedOsd
       /\ (cmd.i = Len(cmd.osds) /\ pc' = "run") =>
            (cmd.somethingChanged \/ RoundApplied)
       /\ cmd'.somethingChanged =>
            (cmd.i < Len(cmd.osds) /\ (cmd.somethingChanged \/ RoundApplied))]_vars

\* balance-bucket has finished planning; the backfills whose source is one of
\* the bucket's OSDs, in a backfill state o.
BalanceFinished ==
  cmd.name = "balance-bucket" /\ pc \in {"planned", "apply", "done"}
BucketBackfills(o) ==
  SumBackfillsFrom(o, getOsdsForBucket(cmd.bucket, {}), 1)
InBackfills(o) == SumBackfillsFrom(o, cmd.osds, 1)
BalanceEdited == last.res # "none"

\* C18: balance-bucket applies no edit when the backfills from the bucket's
\* OSDs already number maxBackfills or more, and when it has finished, the
\* backfills from the bucket's OSDs, recounted from the up and acting
\* vectors it leaves, do not exceed the larger of maxBackfills and their
\* number before the run.
C18_BackfillCapRespected ==
  BalanceFinished =>
    /\ BucketBackfills(StartOsds) >= cmd.maxBackfills => ~BalanceEdited
    /\ BucketBackfills(mustGetCurrentBackfillState(pgbs))
         <= (IF cmd.maxBackfills >= BucketBackfills(StartOsds)
             THEN cmd.maxBackfills ELSE BucketBackfills(StartOsds))

\* The same, counting only the backfills from the OSDs the tree shows with a
\* reweight above 0.
C18_CapOverListedOsds ==
  BalanceFinished =>
    /\ InBackfills(StartOsds) >= cmd.maxBackfills => ~BalanceEdited
    /\ InBackfills(mustGetCurrentBackfillState(pgbs))
         <= (IF cmd.maxBackfills >= InBackfills(StartOsds)
             THEN cmd.maxBackfills ELSE InBackfills(StartOsds))

\* count(osd): the PGs whose current up vector holds the OSD; the 'in' OSDs
\* of the bucket; the spread of the counts over them.
UpCount(b, x) == Cardinality({p \in PGs : b[p].present /\ x \in Range(b[p].Up)})
InOsds == Range(getOsdsForBucket(cmd.bucket, cmd.reweightZero)) \ cmd.out
Highest(b) == CHOOSE n \in {UpCount(b, x) : x \in InOsds} :
                \A y \in InOsds : UpCount(b, y) <= n
Lowest(b) == CHOOSE n \in {UpCount(b, x) : x \in InOsds} :
               \A y \in InOsds : UpCount(b, y) >= n
Spread(b) == IF InOsds = {} THEN 0 ELSE Highest(b) - Lowest(b)
BalanceMove ==
  /\ pc = "run" /\ cmd.name = "balance-bucket" /\ cmd.stage = "loop"
  /\ last' # last /\ pc' # "fatal"

\* C19: when balance-bucket stops with fewer than maxBackfills backfills
\* counted, the spread of count(osd) over the in-OSDs of the bucket is at
\* most targetSpread; every edit it applies moves a PG from an OSD of the
\* highest count to an OSD of the lowest count, and no edit increases the
\* spread.
C19_SpreadReached ==
  /\ [](BalanceFinished /\ cmd.backfillsInSet < cmd.maxBackfills
          => Spread(pgbs) <= cmd.targetSpread)
  /\ [][BalanceMove =>
          /\ UpCount(pgbs, last'.from) = Highest(pgbs)
          /\ UpCount(pgbs, last'.to) = Lowest(pgbs)
          /\ Spread(pgbs') <= Spread(pgbs)]_vars

\* The same, when no PG has two OSDs of the bucket in its up vector.
SinglePlacement ==
  \A p \in PGs :
    Cardinality(Range(SeedBriefs[p].Up) \cap Range(getOsdsForBucket(cmd.bucket, {}))) <= 1
C19_SpreadSinglePlacement ==
  /\ [](SinglePlacement /\ BalanceFinished /\ cmd.backfillsInSet < cmd.maxBackfills
          => Spread(pgbs) <= cmd.targetSpread)
  /\ [][SinglePlacement /\ BalanceMove =>
          /\ UpCount(pgbs, last'.from) = Highest(pgbs)
          /\ UpCount(pgbs, last'.to) = Lowest(pgbs)
          /\ Spread(pgbs') <= Spread(pgbs)]_vars

\* An entry of import-mappings was applied without a panic; the mappings of
\* its PG before and after; the sources X whose mapping X -> last'.from the
\* entry (pg, X, last'.to) retargets.
ImportStep ==
  /\ pc = "run" /\ cmd.name = "import-mappings" /\ last' # last
  /\ pc' # "fatal"
MappingsFrom(ms, x) == {i \in 1..Len(ms) : ms[i].From = x}
Retargeted(ms) ==
  {x \in OSDs : MappingsFrom(ms, x) # {}
                /\ ms[Min(MappingsFrom(ms, x))].To = last'.from}

\* C20: an entry (pg, from, to) of import-mappings for a PG that has a
\* mapping from -> Y leaves the PG with exactly one mapping of that from,
\* from -> to; for a PG without a mapping of that from it leaves what
\* mustRemap(pg, from, to) leaves.
C20_ImportRetargets ==
  [][ImportStep =>
       /\ \A x \in Retargeted(puis[last'.pgid].Mappings) :
            /\ Cardinality(MappingsFrom(puis'[last'.pgid].Mappings, x)) = 1
            /\ \A i \in MappingsFrom(puis'[last'.pgid].Mappings, x) :
                 puis'[last'.pgid].Mappings[i].To = last'.to
       /\ MappingsFrom(puis[last'.pgid].Mappings, last'.from) = {} =>
            /\ puis' = tryRemap(puis, pgbs, osds, changeState,
                                last'.pgid, last'.from, last'.to).puis
            /\ pgbs' = tryRemap(puis, pgbs, osds, changeState,
                                last'.pgid, last'.from, last'.to).pgbs]_vars

\* C21: after the seeding and after any sequence of remaps, no mapping of
\* the live list of a PG present in the snapshot is stale: its From is not
\* in the PG's up vector and its To is.
C21_NoStaleLiveMapping ==
  Alive =>
    \A p \in PGs : pgbs[p].present =>
      \A i \in 1..Len(puis[p].Mappings) :
        /\ puis[p].Mappings[i].From \notin Range(pgbs[p].Up)
        /\ puis[p].Mappings[i].To \in Range(pgbs[p].Up)

\* The same right after the seeding, before any remap.
C21_NoStaleAfterSeed ==
  (pc = "run" /\ last.res = "none") =>
    \A p \in PGs : pgbs[p].present =>
      \A i \in 1..Len(puis[p].Mappings) :
        /\ puis[p].Mappings[i].From \notin Range(pgbs[p].Up)
        /\ puis[p].Mappings[i].To \in Range(pgbs[p].Up)

\* The item of PG p as the seeding left it, and the pairs of a mapping list.
SeedItem(p) == sanitizeStaleUpmaps(snap, SeedBriefs)[p]
PairsOf(ms) == [i \in 1..Len(ms) |-> <<ms[i].From, ms[i].To>>]
Unedited(p) ==
  /\ puis[p].Mappings = SeedItem(p).Mappings
  /\ puis[p].removedMappings = <<>>
WrittenPairs(p) == IF Len(written[p]) = 2 THEN written[p][2] ELSE <<>>

\* C22: the seeding, stale stripping included, leaves no item dirty and the
\* change-state at NoChange; an item no edit has touched (its live list is
\* the one the seeding left and nothing was removed from it) is not dirty
\* and is never written; and what is written for
\* an item is its live list, the stripped mappings left out.
C22_StaleStrippingSilent ==
  /\ [][(pc = "start" /\ pc' = "run") =>
          /\ changeState' = NoChange
          /\ \A p \in PGs : ~puis'[p].dirty]_vars
  /\ [](Alive =>
          \A p \in PGs :
            Unedited(p) => ~puis[p].dirty /\ p \notin DOMAIN written)
  /\ [](\A p \in DOMAIN written :
          /\ WrittenPairs(p) = PairsOf(puis[p].Mappings)
          /\ \A i \in 1..Len(puis[p].staleMappings) :
               <<puis[p].staleMappings[i].From, puis[p].staleMappings[i].To>>
                 \in Range(WrittenPairs(p))
               => \E j \in 1..Len(puis[p].Mappings) :
                    /\ puis[p].Mappings[j].From = puis[p].staleMappings[i].From
                    /\ puis[p].Mappings[j].To = puis[p].staleMappings[i].To)

\* The parts of C22 that concern the seeding itself and the written list.
C22_SeedingSilent ==
  /\ [][(pc = "start" /\ pc' = "run") =>
          /\ changeState' = NoChange
          /\ \A p \in PGs : ~puis'[p].dirty]_vars
  /\ [](\A p \in DOMAIN written : WrittenPairs(p) = PairsOf(puis[p].Mappings))

RoundRejected ==
  \E c \in Range(RoundCandidates) :
    ~RoomFor([pgbs |-> pgbs, osds |-> osds], c)
RoundRan ==
  RoundStep /\ (cmd.name = "drain" => cmd.candidateMappings # <<>>)

\* C24: the change-state never goes down; a round of remapLeastBusyPg
\* leaves it at ChangesPending if it applied an edit, else at
\* NoReservationAvailable or above if it rejected a candidate, else where it
\* was, so that a run ends at NoReservationAvailable exactly when a
\* candidate was rejected and no edit was applied.
C24_ChangeStateMonotone ==
  /\ [][changeState' >= changeState]_vars
  /\ [][RoundRan =>
          changeState' =
            IF RoundApplied THEN ChangesPending
            ELSE IF RoundRejected /\ changeState < NoReservationAvailable
            THEN NoReservationAvailable
            ELSE changeState]_vars
  /\ [](changeState = NoReservationAvailable =>
          cmd.name \in {"drain", "undo-upmaps"} /\ last.res = "none")
  /\ []((Alive /\ last.res \in {"added", "modified", "removed"}) =>
          changeState = ChangesPending)

\* A planner rejected a candidate after it had applied an edit.
C24_Witness ==
  /\ pc = "planned" /\ cmd.name \in {"drain", "undo-upmaps"}
  /\ changeState = ChangesPending
  /\ \E c \in Range(RoundCandidates) :
       ~RoomFor([pgbs |-> pgbs, osds |-> osds], c)

\* The backfill slots of a PG neither side of which is NONE, and the three
\* counters of OSD x tallied over these slots alone.
SoundSlots(b) ==
  {i \in 1..Len(b.Acting) :
     b.Up[i] # b.Acting[i] /\ b.Up[i] # invalidOSD /\ b.Acting[i] # invalidOSD}
SoundTally(briefs, x) ==
  LET slots == {<<p, i>> \in PGs \X (1..2) :
                  briefs[p].present /\ i \in SoundSlots(briefs[p])}
  IN <<Cardinality({p \in PGs : /\ briefs[p].present
                                /\ SoundSlots(briefs[p]) # {}
                                /\ primaryOsd(briefs[p].Acting) = x}),
       Cardinality({sl \in slots : briefs[sl[1]].Up[sl[2]] = x}),
       Cardinality({sl \in slots : briefs[sl[1]].Acting[sl[2]] = x})>>

\* C25: no counter is kept for NONE, and the tally the seeding makes counts
\* only the backfill slots neither side of which is NONE.
C25_DegradedSlotsUncounted ==
  /\ [](Alive => Counters(osds)[invalidOSD] = <<0, 0, 0>>)
  /\ [][(pc = "start" /\ pc' = "run") =>
          \A x \in OSDs : Counters(osds')[x] = SoundTally(pgbs', x)]_vars

\* C26: during cancel-backfill's parallel per-PG loop at most one worker is
\* inside tryRemap at any time, and while a worker is inside, the upmap
\* items, the up vector of its PG and the backfill counters change only by
\* that worker's own call, which takes effect in one step and leaves
\* tryRemap.
InTryRemap == IF cmd.name = "cancel-backfill" THEN cmd.inTryRemap ELSE {}
C26_TryRemapExclusive ==
  /\ [](Cardinality(InTryRemap) <= 1)
  /\ [][\A p \in InTryRemap :
          (puis' # puis \/ osds' # osds \/ pgbs'[p] # pgbs[p] \/ last' # last)
            => (p \notin cmd'.inTryRemap /\ last'.pgid = p)]_vars
C26_Witness ==
  /\ pc = "run" /\ cmd.name = "cancel-backfill"
  /\ \E p, q \in PGs :
       /\ p # q /\ p \in cmd.inTryRemap
       /\ cmd.work[q].stage = "active" /\ slotRemaps(q)
       /\ last.pgid = q

\* C27: hasRoomForRemap leaves the backfill state as it found it, whatever
\* it returns: probing any candidate of a round of remapLeastBusyPg in the
\* state the round starts in, when it returns, every per-OSD counter keeps
\* its value and the PG's up vector keeps its multiset of OSDs, also when
\* the candidate's target is already in the PG's up set.
UpBag(up) == [x \in Range(up) |-> Cardinality({i \in DOMAIN up : up[i] = x})]
ProbeOf(c) ==
  hasRoomForRemap(pgbs, osds, maxBackfillsFrom, maxBackfillReservations,
                  c.PgID, c.From, c.To)
ProbeRestores(c, h) ==
  ~h.panic =>
    /\ h.osds = osds
    /\ \A p \in PGs : UpBag(h.pgbs[p].Up) = UpBag(pgbs[p].Up)
RoundState ==
  pc = "run" /\ cmd.name \in {"drain", "undo-upmaps"} /\ cmd.stage = "loop"
C27_ProbeSideEffectFree ==
  RoundState =>
    \A k \in DOMAIN RoundCandidates :
      ProbeRestores(RoundCandidates[k], ProbeOf(RoundCandidates[k]))

\* C28: hasRoomForRemap returns true exactly when, in the backfill state
\* with the edit tentatively applied, the source's backfillsFrom is at most
\* maxBackfillsFrom, the primary's local reservations are at most its
\* maximum, and the remote reservations of every up OSD in a backfill slot
\* are at most that OSD's maximum.
Tentative(c) == accountForRemap(pgbs, osds, c.PgID, c.From, c.To)
MaxOf(o, x) ==
  IF o[x].maxBackfillReservations = -1 THEN maxBackfillReservations
  ELSE o[x].maxBackfillReservations
RoomConditions(c, t) ==
  LET up == t.pgbs[c.PgID].Up
      acting == t.pgbs[c.PgID].Acting
  IN /\ t.osds[c.From].backfillsFrom <= maxBackfillsFrom
     /\ t.osds[primaryOsd(acting)].localReservations
          <= MaxOf(t.osds, primaryOsd(acting))
     /\ \A i \in DOMAIN up :
          up[i] # acting[i] => t.osds[up[i]].remoteReservations <= MaxOf(t.osds, up[i])
C28_RoomIffWithinLimits ==
  RoundState =>
    \A k \in DOMAIN RoundCandidates :
      ~ProbeOf(RoundCandidates[k]).panic =>
        (ProbeOf(RoundCandidates[k]).ok
           <=> RoomConditions(RoundCandidates[k], Tentative(RoundCandidates[k])))

\* C29: on a replicated PG reorderUpToMatchActing only permutes up, and
\* afterwards every OSD that is in both up and acting is at the same index
\* in both: with upmap-based matching, as the seeding calls it on the up
\* vector of the pg dump, and without it, as accountForRemap calls it after
\* replacing the source of an applied remap.
Aligned(up, acting) ==
  \A i \in DOMAIN up : \A j \in DOMAIN acting :
    (up[i] = acting[j] /\ up[i] # invalidOSD) => i = j
SeedStep == pc = "start" /\ pc' # "start"
EditMade(res) == res \in {"added", "removed", "modified"}
RemapApplied(p) ==
  /\ last' # last /\ last'.pgid = p /\ EditMade(last'.res)
  /\ pgbs'[p].Up # pgbs[p].Up
C29_SeedReorderAligns ==
  [][SeedStep =>
       \A p \in PGs :
         (pgbs'[p].present /\ ~PgUsesEC(p)) =>
           /\ UpBag(pgbs'[p].Up) = UpBag(snap[p].Up)
           /\ Aligned(pgbs'[p].Up, pgbs'[p].Acting)]_vars
C29_RemapReorderAligns ==
  [][\A p \in PGs :
       (RemapApplied(p) /\ ~PgUsesEC(p) /\ ~hasDuplicateOSDID(pgbs'[p].Up)) =>
         Aligned(pgbs'[p].Up, pgbs'[p].Acting)]_vars
C29_ReorderAligns == C29_SeedReorderAligns /\ C29_RemapReorderAligns

\* C30: for a PG of an EC pool reorderUpToMatchActing leaves up as it is at
\* every index: the seeding keeps the up vector of the pg dump, and an
\* applied remap whose source is in up changes exactly one index of up, the
\* one that held the source, which now holds the target.
Differing(up1, up2) == {i \in DOMAIN up1 : up1[i] # up2[i]}
EcRemapApplied(p) ==
  /\ PgUsesEC(p)
  /\ last' # last /\ last'.pgid = p /\ EditMade(last'.res)
  /\ last'.from # last'.to
  /\ last'.from \in Range(pgbs[p].Up)
C30_EcUpKeepsOrder ==
  /\ [][SeedStep =>
          \A p \in PGs : (pgbs'[p].present /\ PgUsesEC(p)) => pgbs'[p].Up = snap[p].Up]_vars
  /\ [][\A p \in PGs :
          EcRemapApplied(p) =>
            /\ Cardinality(Differing(pgbs[p].Up, pgbs'[p].Up)) = 1
            /\ \A i \in Differing(pgbs[p].Up, pgbs'[p].Up) :
                 pgbs[p].Up[i] = last'.from /\ pgbs'[p].Up[i] = last'.to]_vars

\* C31: an accountForRemap whose source is in up replaces exactly one slot:
\* the multiset of OSDs in up afterwards is the previous one with a single
\* occurrence of the source replaced by the target, the counters are the
\* previous ones with the PG's reservations removed once for the old up
\* vector and added once for the new one, and no other PG's up vector
\* changes.
AccountedStep(p) ==
  /\ last' # last /\ last'.pgid = p /\ EditMade(last'.res)
  /\ last'.from \in Range(pgbs[p].Up)
OneSlotReplaced(up, up2, from, to) ==
  \E i \in DOMAIN up : up[i] = from /\ UpBag(up2) = UpBag([up EXCEPT ![i] = to])
C31_AccountReplacesOneSlot ==
  [][\A p \in PGs :
       AccountedStep(p) =>
         /\ OneSlotReplaced(pgbs[p].Up, pgbs'[p].Up, last'.from, last'.to)
         /\ osds' = addReservations(removeReservations(osds, pgbs[p].Up, pgbs[p].Acting),
                                    pgbs'[p].Up, pgbs'[p].Acting)
         /\ \A q \in PGs \ {p} : pgbs'[q].Up = pgbs[q].Up]_vars

\* C32: the accountForRemap of an applied edit prints the "osd not in up
\* set" warning only when the source is not in the PG's up vector, and then
\* leaves every counter and every up vector as they were; when the source
\* is in up it prints nothing.
EditStep(p) == last' # last /\ last'.pgid = p /\ EditMade(last'.res)
AccountOf(p) == accountForRemap(pgbs, osds, p, last'.from, last'.to)
C32_WarnsOnlyWhenAbsent ==
  [][\A p \in PGs :
       (EditStep(p) /\ ~AccountOf(p).panic) =>
         /\ AccountOf(p).warned <=> last'.from \notin Range(pgbs[p].Up)
         /\ last'.from \notin Range(pgbs[p].Up) => (osds' = osds /\ pgbs' = pgbs)]_vars

\* C33: the reconstruction of a degraded acting set keeps every slot that
\* is not NONE: at every index where the acting set of the pg dump holds an
\* OSD the reconstructed set holds the same OSD, for replicated and EC PGs
\* and whatever the peer list.
C33_ReconstructionKeepsActing ==
  \A p \in PGs : Reconstructed(p) =>
    \A i \in DOMAIN pgbs[p].Acting :
      pgbs[p].Acting[i] # invalidOSD => cmd.work[p].acting[i] = pgbs[p].Acting[i]

\* C34: a tryRemap that returns a conflict error leaves the mapping list and
\* the removed list of every item, every up vector and every backfill
\* counter as they were before the call.
ConflictStep == last' # last /\ last'.res = "conflict"
C34_ConflictChangesNothing ==
  [][ConflictStep =>
       /\ \A p \in PGs : /\ puis'[p].Mappings = puis[p].Mappings
                         /\ puis'[p].removedMappings = puis[p].removedMappings
       /\ pgbs' = pgbs
       /\ osds' = osds]_vars
C34_Witness ==
  /\ cmd.name = "cancel-backfill" /\ pc = "run"
  /\ last.res = "conflict"
  /\ last.from \in Range(pgbs[last.pgid].Up)
  /\ puis[last.pgid].Mappings # <<>>

\* C35: a tryRemap that returns a conflict error leaves the dirty flag of
\* every item and the change-state as they were, so that a cancel-backfill
\* none of whose remaps edited an item stays at NoChange and writes nothing,
\* confirmed or not.
C35_ConflictLeavesClean ==
  /\ [][ConflictStep =>
          /\ \A p \in PGs : puis'[p].dirty = puis[p].dirty
          /\ changeState' = changeState]_vars
  /\ []((cmd.name = "cancel-backfill" /\ Alive /\ last.res = "conflict"
           /\ \A p \in PGs : Unedited(p))
          => (changeState = NoChange /\ written = <<>>))

\* C36: the outcome of a tryRemap, conflict or not and the set of mappings
\* it leaves, is the one the same call gives on every permutation of the
\* PG's mapping list.
Perms(ms) ==
  {[i \in 1..Len(ms) |-> ms[f[i]]] :
     f \in {g \in [1..Len(ms) -> 1..Len(ms)] : Range(g) = 1..Len(ms)}}
Outcome(res, ms) == <<res = "conflict", Pairs(ms)>>
OutcomeOn(p, ms, from, to) ==
  LET r == tryRemap([puis EXCEPT ![p].Mappings = ms], pgbs, osds, changeState,
                    p, from, to)
  IN Outcome(r.res, r.puis[p].Mappings)
C36_OrderIndependent ==
  [][\A p \in PGs :
       (last' # last /\ last'.pgid = p /\ last'.res # "panic") =>
         \A ms \in Perms(puis[p].Mappings) :
           OutcomeOn(p, ms, last'.from, last'.to)
             = Outcome(last'.res, puis'[p].Mappings)]_vars

\* C37: during cancel-backfill a worker reads the upmap items, as the
\* re-ordering of a degraded replicated PG's up vector does, only while no
\* other worker is inside tryRemap.
ItemsRead(p) ==
  /\ cmd.name = "cancel-backfill" /\ pc = "run"
  /\ cmd.work[p].stage = "query" /\ cmd'.work[p].stage # "query"
  /\ ~PgUsesEC(p)
C37_ItemsReadUnderMutex ==
  [][\A p \in PGs : ItemsRead(p) => cmd.inTryRemap \subseteq {p}]_vars

\* The sequential run of calcPgMappingsToUndoBackfill: one worker that takes
\* the PGs in snapshot order, inf[p] being what `ceph pg query` reports of
\* the peers of p.  st holds the mapping and backfill state and whether the
\* run has panicked.
SeqCalled(r) ==
  [puis |-> r.puis, pgbs |-> r.pgbs, osds |-> r.osds,
   changeState |-> r.changeState, fatal |-> r.res = "panic"]
RECURSIVE SeqSlots(_, _, _, _)
SeqSlots(st, p, acting, i) ==
  IF st.fatal \/ i > Len(acting) THEN st
  ELSE IF /\ st.pgbs[p].Up[i] # acting[i]
          /\ st.pgbs[p].Up[i] # invalidOSD /\ acting[i] # invalidOSD
          /\ slotSelected(cmd, st.pgbs[p].Up[i], acting[i])
  THEN SeqSlots(SeqCalled(tryRemap(st.puis, st.pgbs, st.osds, st.changeState,
                                   p, st.pgbs[p].Up[i], acting[i])),
                p, acting, i + 1)
  ELSE SeqSlots(st, p, acting, i + 1)
SeqReordered(st, p, acting, up) ==
  IF /\ cmd.pgsIncludingOsds # {}
     /\ (Range(acting) \cup Range(up)) \cap cmd.pgsIncludingOsds = {}
  THEN [st EXCEPT !.pgbs[p].Up = up]
  ELSE SeqSlots([st EXCEPT !.pgbs[p].Up = up], p, acting, 1)
SeqQueried(st, p, rec) ==
  IF rec.panic THEN [st EXCEPT !.fatal = TRUE]
  ELSE SeqReordered(st, p, rec.peers,
         reorderUpToMatchActing(p, st.pgbs[p].Up, rec.peers,
           dumpMappings(st.puis, p, madeBefore(st.puis, p))))
SeqPg(st, p, infos) ==
  IF st.fatal \/ ~st.pgbs[p].present THEN st
  ELSE IF \/ ~StateContains(st.pgbs[p].State, "backfill")
          \/ (cmd.excludeBackfilling /\ StateContains(st.pgbs[p].State, "backfilling"))
          \/ Len(st.pgbs[p].Up) # Len(st.pgbs[p].Acting)
  THEN st
  ELSE IF invalidOSD \in Range(st.pgbs[p].Acting)
  THEN SeqQueried(st, p, getCompletePeers(st.pgbs[p].Acting, infos))
  ELSE SeqReordered(st, p, st.pgbs[p].Acting, st.pgbs[p].Up)
RECURSIVE SeqFrom(_, _, _)
SeqFrom(st, inf, k) ==
  IF k > Len(PgOrder) THEN st
  ELSE SeqFrom(SeqPg(st, PgOrder[k], inf[PgOrder[k]]), inf, k + 1)
SeqRun(inf) ==
  SeqFrom([puis |-> sanitizeStaleUpmaps(snap, SeedBriefs), pgbs |-> SeedBriefs,
           osds |-> mustGetCurrentBackfillState(SeedBriefs),
           changeState |-> NoChange, fatal |-> FALSE], inf, 1)
\* The pg query answers a finished run may have read.
QueryAnswers ==
  {f \in [PGs -> PeerInfos("1.0") \cup PeerInfos("2.0")] :
     \A p \in PGs :
       IF cmd.work[p].acting # <<>> THEN f[p] = cmd.work[p].infos
       ELSE IF SeedBriefs[p].present /\ invalidOSD \in Range(SeedBriefs[p].Acting)
       THEN f[p] \in PeerInfos(p)
       ELSE f[p] = <<>>}
CancelResult ==
  [puis |-> puis, pgbs |-> pgbs, osds |-> osds, changeState |-> changeState,
   fatal |-> FALSE]

\* C38: the result of cancel-backfill does not depend on the scheduling of
\* its workers: a PG a worker has taken is never taken again, and when the
\* workers have all returned the mapping lists, the dirty flags, the up
\* vectors, the backfill counters and the change-state are those of the
\* sequential run over the PGs in snapshot order on the same pg query
\* answers.
C38_CancelIsSequential ==
  /\ [][cmd.name = "cancel-backfill" =>
          \A p \in PGs : cmd.work[p].stage # "queued" => cmd'.work[p].stage # "queued"]_vars
  /\ []((cmd.name = "cancel-backfill" /\ pc = "planned") =>
          \E f \in QueryAnswers : SeqRun(f) = CancelResult)

\* The number of mappings of all upmap items, from the k-th PG on.
RECURSIVE CountMappings(_, _)
CountMappings(mpuis, k) ==
  IF k > Len(PgOrder) THEN 0
  ELSE Len(mpuis[PgOrder[k]].Mappings) + CountMappings(mpuis, k + 1)
UndoLoop == pc = "run" /\ cmd.name = "undo-upmaps"

\* C39: undo-upmaps always terminates: every edit an iteration of its loop
\* applies is the removal of one existing mapping (never a conflict, an
\* addition or a modification), so that the number of mappings goes down by
\* exactly one with it and no other item changes; and the loops of
\* calcPgMappingsToUndoUpmaps end.
C39_UndoTerminates ==
  /\ [][(UndoLoop /\ cmd.stage = "loop" /\ RoundApplied) =>
          /\ last'.res = "removed"
          /\ CountMappings(puis', 1) = CountMappings(puis, 1) - 1
          /\ \A q \in PGs \ {last'.pgid} : puis'[q] = puis[q]]_vars
  /\ UndoLoop ~> ~UndoLoop

\* undo-upmaps ended its loops after two removals.
C39_Witness ==
  /\ cmd.name = "undo-upmaps" /\ pc = "planned"
  /\ last.res = "removed" /\ last.prev[4] = "removed"

\* C40: for every value of --concurrency the two worker pools run to
\* completion: every PG cancel-backfill has to send is received by a worker
\* and its loop over the PGs ends (or the program panics); every dirty item
\* apply has to send is written and apply returns.
C40_PoolsComplete ==
  /\ \A p \in PGs :
       (pc = "run" /\ pgbs[p].present /\ cmd.work[p].stage = "queued")
         ~> (pc = "fatal" \/ cmd.work[p].stage # "queued")
  /\ (pc = "run") ~> (pc # "run")
  /\ \A p \in PGs :
       (pc = "apply" /\ p \in Range(ch.queue)) ~> p \in Range(ch.issued)
  /\ (pc = "apply") ~> (pc = "done")

====
